---- MODULE Spec2Model ----
(***************************************************************************)
(* Model of the bulk-operation safety engine of bento-cli                  *)
(* (core/safety.ts, class Safety) together with the parts of the Output    *)
(* sink (core/output.ts, class Output) that it drives.                     *)
(*                                                                         *)
(* Optional values (T | undefined, T | null) are sequences of length at    *)
(* most one: <<>> is undefined/null, <<v>> is the value v.                 *)
(***************************************************************************)
EXTENDS Integers, Sequences, FiniteSets, TLC

(***************************************************************************)
(* Bounds of the model                                                     *)
(***************************************************************************)
MaxItems == 4
MaxLimit == 2
MaxSample == 2

(***************************************************************************)
(* Program constants                                                       *)
(***************************************************************************)
DefaultConfirmThreshold == 10
DefaultSampleSize == 5

\* The item count of the test "uses the provided sample size when previewing".
TestItemCount == 10

DEFAULT_CONFIG ==
  [confirmThreshold |-> DefaultConfirmThreshold, defaultSampleSize |-> DefaultSampleSize]

\* Configurations a Safety is constructed with: the default one and the
\* overrides { ...DEFAULT_CONFIG, ...config } the callers and tests pass.
Configs ==
  { DEFAULT_CONFIG,
    [confirmThreshold |-> MaxItems - 1, defaultSampleSize |-> MaxSample] }

OutputModes == {"normal", "json", "quiet"}

\* Values of process.env.BENTO_AUTO_CONFIRM: unset, or a string (a sequence
\* of characters).
EnvValues == { <<>>, << <<" ", "O", "n", " ">> >> }

\* Errors operation.execute may reject with (the collaborator's error classes).
Errors == {"AUTH_FAILED", "TIMEOUT"}

Min(a, b) == IF a <= b THEN a ELSE b

\* The item at position i of a candidate list: distinct, and not in sorted
\* order, so that any reordering or omission is visible.
ItemAt(i) == (i * 7) % 13

ItemList(n) == [i \in 1..n |-> ItemAt(i)]

\* Sizes of the candidate lists: every small size, and the size the tests use.
ItemCounts == (0..MaxItems) \cup {TestItemCount}

OptNat(max) == {<<>>} \cup { <<k>> : k \in 0..max }

Operations ==
  [items : { ItemList(n) : n \in ItemCounts },
   isDangerous : BOOLEAN,
   hasPreview : BOOLEAN]

SafetyOptions ==
  [dryRun : BOOLEAN, limit : OptNat(MaxLimit), sample : OptNat(MaxSample), confirm : BOOLEAN]

VARIABLES
  config,          \* Safety.config
  mode,            \* Output.mode
  interactive,     \* what Safety.interactiveCheck() returns
  outInteractive,  \* what Output.isInteractive() returns
  envAutoConfirm,  \* process.env.BENTO_AUTO_CONFIRM
  spinner,         \* Output.spinner: "null" or "spinning"
  pc,              \* position of the protect() call
  operation,       \* protect's argument operation
  options,         \* protect's argument options
  items,           \* protect's local 'items' (after limiting)
  sampleItems,     \* protect's local 'sampleItems'
  executions,      \* number of calls of operation.execute
  received,        \* the list operation.execute was called with
  confirmCalls,    \* number of calls of confirmPrompt
  calls,           \* calls made to collaborators, in order
  out,             \* lines written by the Output sink, in order
  envelopes,       \* JSON payloads written by output.json, in order
  outcome,         \* terminal branch protect() left through
  answers,         \* the answers the user gave to confirmPrompt, in order
  settled,         \* what operation.execute resolved or rejected with
  ret,             \* what protect() returned or threw
  cmdPc,           \* position of the command action handler
  cmd,             \* the command line: command name, selectors, flags
  resolved,        \* what resolveEmailTargets / parseSubscriberCSV produced
  exitCode,        \* the status the process ended with (<<>> while running)
  remoteCalls,     \* calls made to the remote API client, in order
  inFlight,        \* remote calls started and not yet settled
  errLines,        \* lines written by output.error, in order
  bentoConfig,     \* ConfigManager.config: current and profiles
  configCall,      \* the last ConfigManager call: arguments, state before, outcome
  sdk,             \* BentoClient.sdk
  profile,         \* BentoClient.profile
  reads,           \* calls of config.getCurrentProfile since the last reset
  instances,       \* number of Analytics instances constructed
  resets,          \* number of calls of BentoClient.reset
  clientCall       \* the last getClient call: cache before, outcome

vars ==
  << config, mode, interactive, outInteractive, envAutoConfirm, spinner, pc,
     operation, options, items, sampleItems, executions, received,
     confirmCalls, calls, out, envelopes, outcome, answers, settled, ret >>

cmdVars == << cmdPc, cmd, resolved, exitCode, remoteCalls, inFlight, errLines >>

profileVars ==
  << bentoConfig, configCall, sdk, profile, reads, instances, resets, clientCall >>

allVars == << vars, cmdVars, profileVars >>


(***************************************************************************)
(* core/safety.ts: module-level helpers                                    *)
(***************************************************************************)
Whitespace == {" "}

ToLowerChar(c) ==
  CASE c = "O" -> "o"
    [] c = "N" -> "n"
    [] c = "T" -> "t"
    [] c = "R" -> "r"
    [] c = "U" -> "u"
    [] c = "E" -> "e"
    [] c = "Y" -> "y"
    [] c = "S" -> "s"
    [] c = "C" -> "c"
    [] c = "M" -> "m"
    [] c = "A" -> "a"
    [] c = "X" -> "x"
    [] OTHER -> c

toLowerCase(str) == [i \in 1..Len(str) |-> ToLowerChar(str[i])]

RECURSIVE trimStart(_)
trimStart(str) ==
  IF str # <<>> /\ Head(str) \in Whitespace THEN trimStart(Tail(str)) ELSE str

RECURSIVE trimEnd(_)
trimEnd(str) ==
  IF str # <<>> /\ str[Len(str)] \in Whitespace
    THEN trimEnd(SubSeq(str, 1, Len(str) - 1))
    ELSE str

trim(str) == trimEnd(trimStart(str))

TruthyWords ==
  { <<"1">>, <<"t", "r", "u", "e">>, <<"y", "e", "s">>, <<"o", "n">> }

\* Mutant of isTruthyEnv: every value that is not empty counts as truthy.
isTruthyEnvNonEmpty(value) == value # <<>> /\ value[1] # <<>>

\* isTruthyEnv(value?: string): an unset or empty value is falsy.
isTruthyEnv(value) ==
  IF value = <<>> \/ value[1] = <<>>
    THEN FALSE
    ELSE toLowerCase(trim(value[1])) \in TruthyWords

(***************************************************************************)
(* core/output.ts: class Output.  Each method is the sequence of lines it  *)
(* writes in the current mode.                                             *)
(***************************************************************************)
Line(kind, what, n) == [kind |-> kind, what |-> what, n |-> n]

info(what, n) == IF mode # "normal" THEN <<>> ELSE << Line("info", what, n) >>

warn(what, n) == IF mode # "normal" THEN <<>> ELSE << Line("warn", what, n) >>

\* output.json(payload) prints the payload in every mode.
json(payload) == << payload >>

\* output.table(items, {meta: {total}, emptyMessage}): the lines it writes.
tableLines(rows, total) ==
  IF mode # "normal" THEN <<>>
  ELSE IF Len(rows) = 0 THEN info("No matching records to preview.", 0)
  ELSE << Line("table", "rows", Len(rows)) >>
       \o (IF total # Len(rows) THEN << Line("log", "Showing n of total items", Len(rows)) >> ELSE <<>>)

\* output.table in JSON mode prints an envelope instead.
tableEnvelopes(rows, total) ==
  IF mode = "json"
    THEN json([success |-> TRUE, error |-> <<>>,
               data |-> << [rows |-> rows] >>,
               meta |-> [count |-> Len(rows), total |-> total]])
    ELSE <<>>

\* startSpinner creates a spinner only in normal mode on an interactive stream.
startSpinnerActs == mode = "normal" /\ outInteractive

(***************************************************************************)
(* core/safety.ts: class Safety, private helpers                           *)
(***************************************************************************)
isInteractive == interactive

autoConfirmEnabled == isTruthyEnv(envAutoConfirm)

canPrompt == isInteractive /\ ~autoConfirmEnabled

\* Mutants of shouldPrompt: one line of the decision lost or changed.
shouldPromptWithoutTtyCheck(count, opts, op) ==
  IF opts.confirm THEN FALSE
  ELSE IF autoConfirmEnabled THEN FALSE
  ELSE IF op.isDangerous THEN TRUE
  ELSE count >= config.confirmThreshold

shouldPromptIgnoringAutoConfirm(count, opts, op) ==
  IF opts.confirm THEN FALSE
  ELSE IF ~isInteractive THEN TRUE
  ELSE IF op.isDangerous THEN TRUE
  ELSE count >= config.confirmThreshold

shouldPromptAboveThreshold(count, opts, op) ==
  IF opts.confirm THEN FALSE
  ELSE IF autoConfirmEnabled THEN FALSE
  ELSE IF ~isInteractive THEN TRUE
  ELSE IF op.isDangerous THEN TRUE
  ELSE count > config.confirmThreshold

shouldPromptWithoutDangerCheck(count, opts, op) ==
  IF opts.confirm THEN FALSE
  ELSE IF autoConfirmEnabled THEN FALSE
  ELSE IF ~isInteractive THEN TRUE
  ELSE count >= config.confirmThreshold

shouldPrompt(count, opts, op) ==
  IF opts.confirm THEN FALSE
  ELSE IF autoConfirmEnabled THEN FALSE
  ELSE IF ~isInteractive THEN TRUE
  ELSE IF op.isDangerous THEN TRUE
  ELSE count >= config.confirmThreshold

\* Mutant of resolveSampleSize: the requested size is not honoured.
resolveSampleSizeDefaultOnly(requested, total) ==
  IF total = 0 THEN 0 ELSE Min(config.defaultSampleSize, total)

\* Mutant of resolveSampleSize: a requested size that is not positive is
\* taken as it is instead of falling back to the default.
resolveSampleSizeNoFallback(requested, total) ==
  IF total = 0 THEN 0
  ELSE IF requested = <<>> THEN Min(config.defaultSampleSize, total)
  ELSE Min(requested[1], total)

resolveSampleSize(requested, total) ==
  LET fallback == Min(config.defaultSampleSize, total) IN
  IF total = 0 THEN 0
  ELSE IF requested = <<>> \/ requested[1] = 0 THEN fallback
  ELSE IF requested[1] <= 0 THEN fallback
  ELSE Min(requested[1], total)

\* const limit = options.limit && options.limit > 0 ? Math.min(...) : undefined
limitOf(opts, originalCount) ==
  IF opts.limit # <<>> /\ opts.limit[1] # 0 /\ opts.limit[1] > 0
    THEN << Min(opts.limit[1], originalCount) >>
    ELSE <<>>

\* if (limit && limit < originalCount) items = items.slice(0, limit)
limitApplies(limit, originalCount) ==
  limit # <<>> /\ limit[1] # 0 /\ limit[1] < originalCount

slice(list, from, to) == SubSeq(list, from + 1, Min(to, Len(list)))

\* Mutant of limitedItems: items.slice(-limit), the last items instead of the first.
limitedItemsFromEnd(list, limit) ==
  IF limitApplies(limit, Len(list))
    THEN SubSeq(list, Len(list) - limit[1] + 1, Len(list))
    ELSE list

limitedItems(list, limit) ==
  IF limitApplies(limit, Len(list)) THEN slice(list, 0, limit[1]) ELSE list

\* The items are record-shaped and the operation gives no formatItem: each
\* sampled item is its own row.
formatSample(op, sample) == [i \in 1..Len(sample) |-> sample[i]]

Emitted(lines, envs) == [out |-> lines, env |-> envs]

Meta(count, code) == [count |-> count, code |-> code]

\* The data object of an envelope; a key the code leaves out is FALSE, 0 or <<>>.
Data(dryRun, cancelled, wouldAffect, preview) ==
  [dryRun |-> dryRun, cancelled |-> cancelled, wouldAffect |-> wouldAffect, preview |-> preview]

Envelope(success, error, data, meta) ==
  [success |-> success, error |-> error, data |-> data, meta |-> meta]

RefusalMessage ==
  "Cannot run without --confirm in non-interactive mode. Re-run with --confirm or set BENTO_AUTO_CONFIRM=true."

\* Mutant of renderPreview: the hook is called in quiet and JSON mode too.
renderPreviewHookAlways(op, count, sample, formattedSample) ==
  IF mode # "normal"
    THEN [out |-> <<>>, env |-> <<>>, calls |-> (IF op.hasPreview THEN << "preview" >> ELSE <<>>)]
  ELSE
    [out |->
       (IF op.isDangerous THEN warn("This operation cannot be undone.", 0) ELSE <<>>)
       \o info("name: count item(s)", count)
       \o (IF Len(formattedSample) > 0
             THEN tableLines(formattedSample, count)
             ELSE info("No matching records to preview.", 0))
       \o (IF count > Len(formattedSample)
             THEN info("Previewing n of count item(s).", Len(formattedSample))
             ELSE <<>>),
     env |->
       (IF Len(formattedSample) > 0 THEN tableEnvelopes(formattedSample, count) ELSE <<>>),
     calls |-> (IF op.hasPreview THEN << "preview" >> ELSE <<>>)]

renderPreview(op, count, sample, formattedSample) ==
  IF mode = "quiet" THEN [out |-> <<>>, env |-> <<>>, calls |-> <<>>]
  ELSE IF mode = "json" THEN [out |-> <<>>, env |-> <<>>, calls |-> <<>>]
  ELSE
    [out |->
       (IF op.isDangerous THEN warn("This operation cannot be undone.", 0) ELSE <<>>)
       \o info("name: count item(s)", count)
       \o (IF Len(formattedSample) > 0
             THEN tableLines(formattedSample, count)
             ELSE info("No matching records to preview.", 0))
       \o (IF count > Len(formattedSample)
             THEN info("Previewing n of count item(s).", Len(formattedSample))
             ELSE <<>>),
     env |->
       (IF Len(formattedSample) > 0 THEN tableEnvelopes(formattedSample, count) ELSE <<>>),
     calls |-> (IF op.hasPreview THEN << "preview" >> ELSE <<>>)]

emitDryRun(op, sample, count) ==
  IF mode = "json"
    THEN Emitted(<<>>, json(Envelope(TRUE, <<>>, << Data(TRUE, FALSE, count, sample) >>, Meta(count, <<>>))))
    ELSE Emitted(info("Dry run complete. No changes were made.", 0), <<>>)

emitNoWork ==
  IF mode = "quiet" THEN Emitted(<<>>, <<>>)
  ELSE IF mode = "json"
    THEN Emitted(<<>>, json(Envelope(TRUE, <<>>, << Data(TRUE, FALSE, 0, <<>>) >>, Meta(0, <<>>))))
    ELSE Emitted(warn("No items found. Nothing to do.", 0), <<>>)

\* Mutant of emitPromptUnavailable: the refusal reported with success: true.
emitPromptUnavailableAsSuccess ==
  IF mode = "json"
    THEN Emitted(<<>>, json(Envelope(TRUE, << RefusalMessage >>, <<>>, Meta(0, << 6 >>))))
    ELSE Emitted(warn(RefusalMessage, 0), <<>>)

emitPromptUnavailable ==
  IF mode = "json"
    THEN Emitted(<<>>, json(Envelope(FALSE, << RefusalMessage >>, <<>>, Meta(0, << 6 >>))))
    ELSE Emitted(warn(RefusalMessage, 0), <<>>)

\* Mutant of emitCancelled: the cancellation reported as a failure.
emitCancelledAsError ==
  IF mode = "json"
    THEN Emitted(<<>>, json(Envelope(FALSE, << "Operation cancelled." >>, <<>>, Meta(0, <<>>))))
    ELSE Emitted(warn("Operation cancelled.", 0), <<>>)

emitCancelled ==
  IF mode = "json"
    THEN Emitted(<<>>, json(Envelope(TRUE, <<>>, << Data(FALSE, TRUE, 0, <<>>) >>, Meta(0, <<>>))))
    ELSE Emitted(warn("Operation cancelled.", 0), <<>>)

Null == [kind |-> "null", val |-> ""]
Pending == [kind |-> "pending", val |-> ""]
Value(r) == [kind |-> "value", val |-> r]
Throw(e) == [kind |-> "throw", val |-> e]

\* What operation.execute resolves with.
Results == {"result"}


(***************************************************************************)
(* utils/csv.ts and commands/subscribers/helpers.ts: the target resolver.  *)
(* A string is a sequence of characters; a file is its sequence of lines   *)
(* (content.split(/\r?\n/)), with one value per line.                      *)
(***************************************************************************)
MaxLines == 3

LowerEmail == <<"u","s","e","r","@","e","x","a","m","p","l","e",".","c","o","m">>
MixedEmail == <<"U","s","e","r","@","E","x","a","m","p","l","e",".","C","O","M">>
PaddedEmail == <<" ">> \o MixedEmail \o <<" ">>
OtherEmail == <<"a","@","x",".","c","o","m">>
NoDotEmail == <<"u","s","e","r","@","c","o","m">>
SpacedEmail == <<"a"," ","b","@","x",".","c","o","m">>
EmailHeader == <<"E","m","a","i","l">>
BlankString == <<" ">>
EmptyString == <<>>

\* Values of --email, and lines of a --file.
EmailValues ==
  { EmptyString, BlankString, LowerEmail, MixedEmail, PaddedEmail, OtherEmail,
    NoDotEmail, SpacedEmail }

LineValues ==
  { EmptyString, LowerEmail, MixedEmail, PaddedEmail, OtherEmail, NoDotEmail, EmailHeader }

SeqsUpTo(S, n) == UNION { [1..k -> S] : k \in 0..n }

File(exists, readable, lines) == [exists |-> exists, readable |-> readable, lines |-> lines]

\* /^[^\s@]+@[^\s@]+\.[^\s@]+$/
isValidEmail(email) ==
  \E i \in DOMAIN email, j \in DOMAIN email :
    /\ email[i] = "@"
    /\ email[j] = "."
    /\ 1 < i /\ i + 1 < j /\ j < Len(email)
    /\ \A k \in DOMAIN email : k # i => (email[k] \notin Whitespace /\ email[k] # "@")

\* Mutant of normalizeEmail: the address is trimmed and not lowercased.
normalizeEmailTrimOnly(email) == trim(email)

normalizeEmail(email) == toLowerCase(trim(email))

CSVError(line, column, message, value) ==
  [line |-> line, column |-> column, message |-> message, value |-> value]

Range(list) == { list[i] : i \in DOMAIN list }

\* Mutant of setAdd: an array push, duplicates kept.
setAddAlways(list, x) == Append(list, x)

\* emails.add(x) on a Set, which keeps insertion order and the first of equals.
setAdd(list, x) == IF x \in Range(list) THEN list ELSE Append(list, x)

Parsed(emails, errors) == [emails |-> emails, errors |-> errors]

\* findColumnKey(columns, "email") on a column name.
isEmailColumn(column) == toLowerCase(trim(column)) = <<"e","m","a","i","l">>

\* The records csv-parse yields with trim and skip_empty_lines: the lines
\* that are not blank, trimmed.
RECURSIVE csvRecords(_)
csvRecords(lines) ==
  IF lines = <<>> THEN <<>>
  ELSE IF trim(Head(lines)) = <<>> THEN csvRecords(Tail(lines))
  ELSE << trim(Head(lines)) >> \o csvRecords(Tail(lines))

\* tryParseEmailCSV: the rows under an email header, or <<>> for null.
tryParseEmailCSV(lines) ==
  LET records == csvRecords(lines) IN
  IF Len(records) < 2 THEN <<>>
  ELSE IF ~isEmailColumn(records[1]) THEN <<>>
  ELSE << Tail(records) >>

\* rows.forEach of parseEmailList, lines 143-167.
RECURSIVE parseCsvRows(_, _, _)
parseCsvRows(rows, index, acc) ==
  IF rows = <<>> THEN acc
  ELSE
    LET rawEmail == trim(Head(rows))
        lineNumber == index + 2
    IN parseCsvRows(Tail(rows), index + 1,
         IF rawEmail = <<>>
           THEN Parsed(acc.emails, Append(acc.errors, CSVError(lineNumber, <<"email">>, "Missing email", <<>>)))
         ELSE IF ~isValidEmail(rawEmail)
           THEN Parsed(acc.emails, Append(acc.errors, CSVError(lineNumber, <<"email">>, "Invalid email format", << rawEmail >>)))
         ELSE Parsed(setAdd(acc.emails, normalizeEmail(rawEmail)), acc.errors))

\* lines.forEach of parseEmailList, lines 172-187.
RECURSIVE parsePlainLines(_, _, _)
parsePlainLines(lines, index, acc) ==
  IF lines = <<>> THEN acc
  ELSE
    LET trimmed == trim(Head(lines)) IN
    parsePlainLines(Tail(lines), index + 1,
      IF trimmed = <<>> THEN acc
      ELSE IF ~isValidEmail(trimmed)
        THEN Parsed(acc.emails, Append(acc.errors, CSVError(index + 1, <<>>, "Invalid email format", << trimmed >>)))
      ELSE Parsed(setAdd(acc.emails, normalizeEmail(trimmed)), acc.errors))

parseEmailList(lines) ==
  LET csvResult == tryParseEmailCSV(lines) IN
  IF csvResult # <<>>
    THEN parseCsvRows(csvResult[1], 0, Parsed(<<>>, <<>>))
    ELSE parsePlainLines(lines, 0, Parsed(<<>>, <<>>))

\* What the resolver leaves its caller with: null, a process.exit(code)
\* after an output.error(message), or the targets.
Unresolved == [kind |-> "pending", code |-> 0, message |-> "", emails |-> <<>>, errors |-> <<>>]
NullTargets == [kind |-> "null", code |-> 0, message |-> "", emails |-> <<>>, errors |-> <<>>]
Exit(code, message) == [kind |-> "exit", code |-> code, message |-> message, emails |-> <<>>, errors |-> <<>>]
Targets(emails, errors) == [kind |-> "targets", code |-> 0, message |-> "", emails |-> emails, errors |-> errors]

resolveEmailTargets(email, file) ==
  IF email # <<>> /\ email[1] # <<>> THEN
    LET trimmed == trim(email[1]) IN
    IF trimmed = <<>> THEN Exit(2, "Email cannot be empty.")
    ELSE IF ~isValidEmail(trimmed) THEN Exit(2, "Invalid email")
    ELSE Targets(<< normalizeEmail(trimmed) >>, <<>>)
  ELSE IF file # <<>> THEN
    IF ~file[1].exists THEN Exit(5, "Cannot read file")
    ELSE IF ~file[1].readable THEN Exit(5, "Failed to read file")
    ELSE LET result == parseEmailList(file[1].lines) IN Targets(result.emails, result.errors)
  ELSE NullTargets

\* The command line of one invocation; NoCommand when no command runs.
NoCommandLine ==
  [name |-> "none", email |-> <<>>, file |-> <<>>, add |-> <<>>, remove |-> <<>>,
   tag |-> <<>>, unsuppress |-> FALSE, dryRun |-> FALSE, confirm |-> FALSE, limit |-> <<>>, sample |-> <<>>]

NoCommand ==
  /\ cmdPc = "none"
  /\ cmd = NoCommandLine
  /\ resolved = Unresolved
  /\ exitCode = <<>>
  /\ remoteCalls = <<>>
  /\ inFlight = 0
  /\ errLines = <<>>

\* types/config.ts DEFAULT_CONFIG: no profile is stored, none is current.
DEFAULT_BENTO_CONFIG == [version |-> 1, current |-> <<>>, profiles |-> [n \in {} |-> n]]

NoConfigCall ==
  [op |-> "none", name |-> <<>>, before |-> DEFAULT_BENTO_CONFIG, result |-> "none"]

NoClientCall ==
  [result |-> "none", value |-> <<>>, read |-> FALSE, cachedBefore |-> <<>>,
   stored |-> <<>>, resets |-> 0]

\* A ConfigManager that has loaded the default configuration and a
\* BentoClient just constructed; no call made yet.
NoProfiles ==
  /\ bentoConfig = DEFAULT_BENTO_CONFIG
  /\ configCall = NoConfigCall
  /\ sdk = <<>>
  /\ profile = <<>>
  /\ reads = 0
  /\ instances = 0
  /\ resets = 0
  /\ clientCall = NoClientCall

(***************************************************************************)
(* Initial state: a Safety constructed with a configuration, an Output in  *)
(* some mode, and the process environment; no call made yet.               *)
(***************************************************************************)
NoOperation == [items |-> <<>>, isDangerous |-> FALSE, hasPreview |-> FALSE]
NoOptions == [dryRun |-> FALSE, limit |-> <<>>, sample |-> <<>>, confirm |-> FALSE]

\* No protect call made yet.
SafetyIdle ==
  /\ spinner = "null"
  /\ pc = "idle"
  /\ operation = NoOperation
  /\ options = NoOptions
  /\ items = <<>>
  /\ sampleItems = <<>>
  /\ executions = 0
  /\ received = <<>>
  /\ confirmCalls = 0
  /\ calls = <<>>
  /\ out = <<>>
  /\ envelopes = <<>>
  /\ outcome = "none"
  /\ answers = <<>>
  /\ settled = Pending
  /\ ret = Pending

Init ==
  /\ config \in Configs
  /\ mode \in OutputModes
  /\ interactive \in BOOLEAN
  /\ outInteractive \in BOOLEAN
  /\ envAutoConfirm \in EnvValues
  /\ SafetyIdle
  /\ NoCommand
  /\ NoProfiles

environment == << config, mode, interactive, outInteractive, envAutoConfirm >>

(***************************************************************************)
(* protect(operation, options), lines 67-125, in the steps its awaits cut  *)
(* it into.                                                                *)
(***************************************************************************)

\* Leaving protect with 'return null' after an emit (lines 72-73, 94-95,
\* 100-101, 110-111).
ReturnNull(emitted, branch, outSoFar, envSoFar) ==
  /\ out' = outSoFar \o emitted.out
  /\ envelopes' = envSoFar \o emitted.env
  /\ outcome' = branch
  /\ ret' = Null
  /\ pc' = "done"

\* Lines 115-118: start the spinner and call operation.execute(items).
CallExecute(list, callsSoFar, outSoFar) ==
  /\ spinner' = IF startSpinnerActs THEN "spinning" ELSE spinner
  /\ out' = outSoFar \o (IF startSpinnerActs THEN << Line("spinner", "start", 0) >> ELSE <<>>)
  /\ calls' = callsSoFar \o << "startSpinner", "execute" >>
  /\ executions' = executions + 1
  /\ received' = list
  /\ pc' = "executing"

\* Mutant of dryRunRequested: --confirm overrides --dry-run.
dryRunUnlessConfirmed(opts) == opts.dryRun /\ ~opts.confirm

\* Line 93: if (options.dryRun)
dryRunRequested(opts) == opts.dryRun

\* Mutant of callerItems: the limit truncates the caller's array itself.
callerItemsTruncated(list, limit) == limitedItems(list, limit)

\* Line 68, let items = [...operation.items]: limiting and sampling slice
\* the copy, and operation.items is after the call what it was before.
callerItems(list, limit) == list

\* Lines 68-113 up to the first suspension on the prompt or on execute.
Protect(op, opts) ==
  /\ pc = "idle"
  /\ operation' = [op EXCEPT !.items = callerItems(op.items, limitOf(opts, Len(op.items)))]
  /\ options' = opts
  /\ LET originalCount == Len(op.items)
         limit == limitOf(opts, originalCount)
         limited == limitedItems(op.items, limit)
         count == Len(limited)
         sampleSize == resolveSampleSize(opts.sample, count)
         sample == slice(limited, 0, sampleSize)
         formattedSample == formatSample(op, sample)
         limiting == IF limitApplies(limit, originalCount)
                       THEN info("Limiting name to limit of total item(s).", limit[1])
                       ELSE <<>>
         preview == renderPreview(op, count, sample, formattedSample)
         shown == limiting \o preview.out
     IN
       IF originalCount = 0 THEN
         /\ ReturnNull(emitNoWork, "noop", out, envelopes)
         /\ UNCHANGED << items, sampleItems, calls, executions, received, confirmCalls, spinner >>
       ELSE
         /\ items' = limited
         /\ sampleItems' = sample
         /\ IF dryRunRequested(opts) THEN
              /\ ReturnNull(emitDryRun(op, formattedSample, count), "dryRun", out \o shown, envelopes \o preview.env)
              /\ calls' = calls \o preview.calls
              /\ UNCHANGED << executions, received, confirmCalls, spinner >>
            ELSE IF shouldPrompt(count, opts, op) THEN
              IF ~canPrompt THEN
                /\ ReturnNull(emitPromptUnavailable, "refused", out \o shown, envelopes \o preview.env)
                /\ calls' = calls \o preview.calls
                /\ UNCHANGED << executions, received, confirmCalls, spinner >>
              ELSE
                /\ confirmCalls' = confirmCalls + 1
                /\ calls' = calls \o preview.calls \o << "confirmPrompt" >>
                /\ out' = out \o shown
                /\ envelopes' = envelopes \o preview.env
                /\ pc' = "prompting"
                /\ UNCHANGED << executions, received, spinner, outcome, ret >>
            ELSE
              /\ CallExecute(limited, calls \o preview.calls, out \o shown)
              /\ envelopes' = envelopes \o preview.env
              /\ UNCHANGED << confirmCalls, outcome, ret >>
  /\ UNCHANGED << environment, answers, settled >>

\* Mutant of Answer: the answer is not looked at.
AnswerIgnored(confirmed) ==
  /\ pc = "prompting"
  /\ answers' = Append(answers, confirmed)
  /\ CallExecute(items, calls, out)
  /\ UNCHANGED << envelopes, outcome, ret >>
  /\ UNCHANGED << environment, operation, options, items, sampleItems, confirmCalls, settled >>

\* Lines 104-113: the prompt resolves with the user's answer.
Answer(confirmed) ==
  /\ pc = "prompting"
  /\ answers' = Append(answers, confirmed)
  /\ IF ~confirmed THEN
       /\ ReturnNull(emitCancelled, "cancelled", out, envelopes)
       /\ UNCHANGED << calls, executions, received, spinner >>
     ELSE
       /\ CallExecute(items, calls, out)
       /\ UNCHANGED << envelopes, outcome, ret >>
  /\ UNCHANGED << environment, operation, options, items, sampleItems, confirmCalls, settled >>

\* output.stopSpinner(message) / output.failSpinner(message): no spinner, no line.
spinnerEnds(how) == IF spinner = "null" THEN <<>> ELSE << Line("spinner", how, 0) >>

\* Mutant of rethrow: the error is replaced by a new one.
rethrowWrapped(error) == Throw("SAFETY_ERROR")

\* catch (error) { ...; throw error; }
rethrow(error) == Throw(error)

\* Lines 118-120: execute resolves.
ExecuteResolves(r) ==
  /\ pc = "executing"
  /\ settled' = Value(r)
  /\ calls' = calls \o << "stopSpinner" >>
  /\ out' = out \o spinnerEnds("succeed")
  /\ spinner' = "null"
  /\ ret' = Value(r)
  /\ outcome' = "executed"
  /\ pc' = "done"
  /\ UNCHANGED << environment, operation, options, items, sampleItems, executions,
                  received, confirmCalls, envelopes, answers >>

\* Lines 121-124: execute rejects.
ExecuteRejects(e) ==
  /\ pc = "executing"
  /\ settled' = Throw(e)
  /\ calls' = calls \o << "failSpinner" >>
  /\ out' = out \o spinnerEnds("fail")
  /\ spinner' = "null"
  /\ ret' = rethrow(e)
  /\ outcome' = "failed"
  /\ pc' = "done"
  /\ UNCHANGED << environment, operation, options, items, sampleItems, executions,
                  received, confirmCalls, envelopes, answers >>

\* Mutant of confirmGranted: BENTO_AUTO_CONFIRM is not consulted.
confirmGrantedByFlagOnly(opts) == opts.confirm

\* Line 128: if (options.confirm || this.autoConfirmEnabled())
confirmGranted(opts) == opts.confirm \/ autoConfirmEnabled

\* confirmAction(message, options) up to its return or to the prompt.
ConfirmAction(opts) ==
  /\ pc = "idle"
  /\ options' = opts
  /\ IF confirmGranted(opts) THEN
       /\ ret' = Value("true")
       /\ outcome' = "confirmed"
       /\ pc' = "done"
       /\ UNCHANGED << out, envelopes, confirmCalls, calls >>
     ELSE IF ~canPrompt THEN
       /\ out' = out \o emitPromptUnavailable.out
       /\ envelopes' = envelopes \o emitPromptUnavailable.env
       /\ ret' = Value("false")
       /\ outcome' = "refused"
       /\ pc' = "done"
       /\ UNCHANGED << confirmCalls, calls >>
     ELSE
       /\ confirmCalls' = confirmCalls + 1
       /\ calls' = calls \o << "confirmPrompt" >>
       /\ pc' = "confirming"
       /\ UNCHANGED << out, envelopes, ret, outcome >>
  /\ UNCHANGED << environment, spinner, operation, items, sampleItems, executions,
                  received, answers, settled >>

\* Line 137: the prompt of confirmAction resolves with the user's answer.
ConfirmAnswer(confirmed) ==
  /\ pc = "confirming"
  /\ answers' = Append(answers, confirmed)
  /\ ret' = Value(IF confirmed THEN "true" ELSE "false")
  /\ outcome' = IF confirmed THEN "confirmed" ELSE "declined"
  /\ pc' = "done"
  /\ UNCHANGED << environment, spinner, operation, options, items, sampleItems, executions,
                  received, confirmCalls, calls, out, envelopes, settled >>

\* confirmAction called on its own.
NextConfirm ==
  \/ \E confirm \in BOOLEAN : ConfirmAction([confirm |-> confirm]) /\ UNCHANGED << cmdVars, profileVars >>
  \/ \E confirmed \in BOOLEAN : ConfirmAnswer(confirmed) /\ UNCHANGED << cmdVars, profileVars >>

\* protect called on its own, as the tests of core/safety do.
Next ==
  \/ \E op \in Operations, opts \in SafetyOptions : Protect(op, opts) /\ UNCHANGED << cmdVars, profileVars >>
  \/ \E confirmed \in BOOLEAN : Answer(confirmed) /\ UNCHANGED << cmdVars, profileVars >>
  \/ \E r \in Results : ExecuteResolves(r) /\ UNCHANGED << cmdVars, profileVars >>
  \/ \E e \in Errors : ExecuteRejects(e) /\ UNCHANGED << cmdVars, profileVars >>

Spec == Init /\ [][Next]_allVars

SpecConfirm == Init /\ [][NextConfirm]_allVars

(***************************************************************************)
(* protect under the values of BENTO_AUTO_CONFIRM: the four accepted words *)
(* in several spellings, and values that are not accepted.                 *)
(***************************************************************************)
TruthyEnvValues ==
  { << <<"1">> >>, << <<"T", "R", "U", "E">> >>, << <<"Y", "e", "s">> >>,
    << <<" ", "O", "n", " ">> >> }

FalsyEnvValues ==
  { <<>>, << <<>> >>, << <<" ">> >>, << <<"0">> >>, << <<"f", "a", "l", "s", "e">> >>,
    << <<"n", "o">> >>, << <<"o", "f", "f">> >>, << <<"y">> >> }

InitEnv ==
  /\ config = DEFAULT_CONFIG
  /\ mode = "normal"
  /\ interactive \in BOOLEAN
  /\ outInteractive = interactive
  /\ envAutoConfirm \in TruthyEnvValues \cup FalsyEnvValues
  /\ SafetyIdle
  /\ NoCommand
  /\ NoProfiles

SpecEnv == InitEnv /\ [][Next]_allVars

(***************************************************************************)
(* The target resolver on its own: resolveEmailTargets applied to every    *)
(* --email value and every file of up to MaxLines lines.                   *)
(***************************************************************************)
ResolverInputs ==
  { [NoCommandLine EXCEPT !.name = "resolve", !.email = << e >>] : e \in EmailValues }
  \cup
  { [NoCommandLine EXCEPT !.name = "resolve", !.file = << File(TRUE, TRUE, lines) >>] :
      lines \in SeqsUpTo(LineValues, MaxLines) }
  \cup
  { [NoCommandLine EXCEPT !.name = "resolve", !.file = << File(ex, FALSE, <<>>) >>] : ex \in BOOLEAN }
  \cup
  { [NoCommandLine EXCEPT !.name = "resolve"] }

InitResolve ==
  /\ config = DEFAULT_CONFIG
  /\ mode = "normal"
  /\ interactive = FALSE
  /\ outInteractive = FALSE
  /\ envAutoConfirm = <<>>
  /\ SafetyIdle
  /\ cmdPc = "start"
  /\ cmd \in ResolverInputs
  /\ resolved = Unresolved
  /\ exitCode = <<>>
  /\ remoteCalls = <<>>
  /\ inFlight = 0
  /\ errLines = <<>>
  /\ NoProfiles

Resolve ==
  /\ cmdPc = "start"
  /\ cmd.name = "resolve"
  /\ resolved' = resolveEmailTargets(cmd.email, cmd.file)
  /\ exitCode' = IF resolved'.kind = "exit" THEN << resolved'.code >> ELSE exitCode
  /\ errLines' = IF resolved'.kind = "exit" THEN Append(errLines, resolved'.message) ELSE errLines
  /\ cmdPc' = "resolved"
  /\ UNCHANGED << vars, cmd, remoteCalls, inFlight >>
  /\ UNCHANGED profileVars

NextResolve == Resolve

SpecResolve == InitResolve /\ [][NextResolve]_allVars

(***************************************************************************)
(* The bulk subscriber commands: import, tag, suppress, subscribe.         *)
(***************************************************************************)
CommandNames == { "import", "tag", "suppress", "subscribe" }

\* Output.error: stderr in every mode, a jsonError payload in JSON mode.
error(what, n) ==
  IF mode = "json"
    THEN << Envelope(FALSE, << what >>, <<>>, <<>>) >>
    ELSE << Line("error", what, n) >>

\* Output.success
success(what, n) == IF mode # "normal" THEN <<>> ELSE << Line("success", what, n) >>

\* A JavaScript number: NaN, an infinity, or a finite number given by its
\* floor and by whether it has a fractional part.
NaN == [type |-> "number", nan |-> TRUE, inf |-> FALSE, value |-> 0, frac |-> FALSE]
Infinity == [type |-> "number", nan |-> FALSE, inf |-> TRUE, value |-> 0, frac |-> FALSE]
Num(n) == [type |-> "number", nan |-> FALSE, inf |-> FALSE, value |-> n, frac |-> FALSE]
Fraction(floor) == [type |-> "number", nan |-> FALSE, inf |-> FALSE, value |-> floor, frac |-> TRUE]

\* The other JavaScript values an option can hold.
Str(chars) == [type |-> "string", chars |-> chars]
Bool(b) == [type |-> "boolean", b |-> b]

Digits == { "0", "1", "2", "3", "4", "5", "6", "7", "8", "9" }

DigitValue(c) ==
  CASE c = "0" -> 0 [] c = "1" -> 1 [] c = "2" -> 2 [] c = "3" -> 3 [] c = "4" -> 4
    [] c = "5" -> 5 [] c = "6" -> 6 [] c = "7" -> 7 [] c = "8" -> 8 [] c = "9" -> 9

\* The value of the leading run of decimal digits of s, after acc.
RECURSIVE digitRun(_, _)
digitRun(s, acc) ==
  IF s = <<>> \/ Head(s) \notin Digits THEN acc
  ELSE digitRun(Tail(s), acc * 10 + DigitValue(Head(s)))

\* Number.parseInt(value, 10): leading whitespace skipped, an optional sign,
\* the leading digits; NaN when there is no digit.
parseInt(value) ==
  LET s == trimStart(value)
      signed == s # <<>> /\ Head(s) \in { "-", "+" }
      body == IF signed THEN Tail(s) ELSE s
  IN IF body = <<>> \/ Head(body) \notin Digits THEN NaN
     ELSE IF signed /\ Head(s) = "-" THEN Num(0 - digitRun(body, 0))
     ELSE Num(digitRun(body, 0))

\* Safety.addFlags: commander runs the option's parser on a given value.
flagValue(raw) == IF raw = <<>> THEN <<>> ELSE << parseInt(raw[1]) >>

allDigits(s) == \A i \in DOMAIN s : s[i] \in Digits

\* The digits of s before its first character that is not a digit.
RECURSIVE leadingDigits(_)
leadingDigits(s) ==
  IF s = <<>> \/ Head(s) \notin Digits THEN <<>>
  ELSE << Head(s) >> \o leadingDigits(Tail(s))

\* Number(string) for decimal literals: surrounding whitespace dropped,
\* "" is 0, an optional sign, digits with an optional fraction, or
\* Infinity; anything else is NaN. (Exponents and radix prefixes are not in
\* the strings tried.)
stringToNumber(chars) ==
  LET s == trim(chars)
      signed == s # <<>> /\ Head(s) \in { "-", "+" }
      negative == signed /\ Head(s) = "-"
      body == IF signed THEN Tail(s) ELSE s
      whole == leadingDigits(body)
      rest == SubSeq(body, Len(whole) + 1, Len(body))
      decimals == IF rest = <<>> THEN <<>> ELSE Tail(rest)
      wellFormed ==
        \/ whole # <<>> /\ rest = <<>>
        \/ /\ rest # <<>> /\ Head(rest) = "."
           /\ allDigits(decimals)
           /\ (whole # <<>> \/ decimals # <<>>)
      hasFraction == \E i \in DOMAIN decimals : decimals[i] # "0"
      magnitude == digitRun(whole, 0)
  IN IF s = <<>> THEN Num(0)
     ELSE IF body = << "I", "n", "f", "i", "n", "i", "t", "y" >> THEN Infinity
     ELSE IF ~wellFormed THEN NaN
     ELSE IF ~hasFraction THEN Num(IF negative THEN 0 - magnitude ELSE magnitude)
     ELSE Fraction(IF negative THEN 0 - magnitude - 1 ELSE magnitude)

\* Number(value)
toNumber(v) ==
  CASE v.type = "number" -> v
    [] v.type = "string" -> stringToNumber(v.chars)
    [] v.type = "boolean" -> Num(IF v.b THEN 1 ELSE 0)

\* Boolean(value) of an optional value.
Boolean(value) ==
  IF value = <<>> THEN FALSE
  ELSE CASE value[1].type = "boolean" -> value[1].b
         [] value[1].type = "string" -> value[1].chars # <<>>
         [] value[1].type = "number" ->
              ~value[1].nan /\ (value[1].inf \/ value[1].value # 0 \/ value[1].frac)

\* coercePositiveInteger(value: unknown): undefined and null are <<>>.
coercePositiveInteger(value) ==
  IF value = <<>> THEN <<>>
  ELSE
    LET numeric == IF value[1].type = "number" THEN value[1] ELSE toNumber(value[1]) IN
    IF numeric.nan \/ numeric.inf THEN <<>>
    ELSE IF numeric.value < 0 \/ (numeric.value = 0 /\ ~numeric.frac) THEN <<>>
    ELSE << numeric.value >>

\* Safety.parseOptions(opts: Record<string, unknown>)
parseOptions(opts) ==
  [dryRun |-> Boolean(opts.dryRun),
   limit |-> coercePositiveInteger(opts.limit),
   sample |-> coercePositiveInteger(opts.sample),
   confirm |-> Boolean(opts.confirm)]

\* The options object commander builds from the command line: a boolean
\* flag is true or absent, a numeric flag is what its parser returned.
commanderOpts(c) ==
  [dryRun |-> IF c.dryRun THEN << Bool(TRUE) >> ELSE <<>>,
   limit |-> flagValue(c.limit),
   sample |-> flagValue(c.sample),
   confirm |-> IF c.confirm THEN << Bool(TRUE) >> ELSE <<>>]

\* entry.split(",")
RECURSIVE split(_, _)
split(entry, current) ==
  IF entry = <<>> THEN << current >>
  ELSE IF Head(entry) = "," THEN << current >> \o split(Tail(entry), <<>>)
  ELSE split(Tail(entry), Append(current, Head(entry)))

RECURSIVE flatMapSplit(_)
flatMapSplit(values) ==
  IF values = <<>> THEN <<>> ELSE split(Head(values), <<>>) \o flatMapSplit(Tail(values))

\* .map(trim).filter(Boolean), then Array.from(new Set(tags))
RECURSIVE trimmedUnique(_, _)
trimmedUnique(tags, acc) ==
  IF tags = <<>> THEN acc
  ELSE trimmedUnique(Tail(tags),
         IF trim(Head(tags)) = <<>> THEN acc ELSE setAdd(acc, trim(Head(tags))))

normalizeTagList(values) == trimmedUnique(flatMapSplit(values), <<>>)

\* rows.forEach of parseSubscriberCSV for a file of one column: no Set, a
\* record per valid row.
RECURSIVE parseSubscriberRows(_, _, _)
parseSubscriberRows(rows, index, acc) ==
  IF rows = <<>> THEN acc
  ELSE
    LET rawEmail == trim(Head(rows))
        lineNumber == index + 2
    IN parseSubscriberRows(Tail(rows), index + 1,
         IF rawEmail = <<>>
           THEN Parsed(acc.emails, Append(acc.errors, CSVError(lineNumber, <<"email">>, "Missing email", <<>>)))
         ELSE IF ~isValidEmail(rawEmail)
           THEN Parsed(acc.emails, Append(acc.errors, CSVError(lineNumber, <<"email">>, "Invalid email format", << rawEmail >>)))
         ELSE Parsed(Append(acc.emails, normalizeEmail(rawEmail)), acc.errors))

\* parseSubscriberCSV; the records are named by their email.
parseSubscriberCSV(lines) ==
  LET records == csvRecords(lines) IN
  IF Len(records) < 2 THEN Parsed(<<>>, <<>>)
  ELSE IF ~isEmailColumn(records[1])
    THEN Parsed(<<>>, << CSVError(1, <<"email">>, "CSV missing required column 'email'", <<>>) >>)
  ELSE parseSubscriberRows(Tail(records), 0, Parsed(<<>>, <<>>))

MaxPrintedErrors == 5

printCsvErrors(errors) ==
  error("CSV validation errors:", 0)
  \o [i \in 1..Min(Len(errors), MaxPrintedErrors) |->
        error("  location: message - value", errors[i].line)[1]]
  \o (IF Len(errors) > MaxPrintedErrors
        THEN error("  ...and n more error(s)", Len(errors) - MaxPrintedErrors)
        ELSE <<>>)

\* The codes of a CLIError, and "Error" for a thrown Error that is not one.
SDKErrorCodes ==
  { "AUTH_REQUIRED", "AUTH_FAILED", "RATE_LIMITED", "NOT_FOUND", "TIMEOUT",
    "VALIDATION_ERROR", "API_ERROR", "UNKNOWN" }

RemoteErrors == SDKErrorCodes \cup { "Error" }

exitCodeMap(code) ==
  CASE code = "AUTH_REQUIRED" -> 3
    [] code = "AUTH_FAILED" -> 3
    [] code = "RATE_LIMITED" -> 4
    [] code = "NOT_FOUND" -> 4
    [] code = "TIMEOUT" -> 4
    [] code = "VALIDATION_ERROR" -> 6
    [] code = "API_ERROR" -> 4
    [] code = "UNKNOWN" -> 1

\* Mutant of handleSubscriberError: the error is dropped and the exit is 0.
handleSubscriberErrorSwallowed(e) == [lines |-> <<>>, code |-> 0]

\* handleSubscriberError: the line written and the code process.exit gets.
handleSubscriberError(e) ==
  IF e \in SDKErrorCodes
    THEN [lines |-> error("error.message", 0), code |-> exitCodeMap(e)]
    ELSE [lines |-> error("error.message", 0), code |-> 1]

\* What the part of an action before safety.protect comes to: a
\* process.exit(code) after the lines written to stderr, or the operation.
Stop(code, lines) == [exit |-> << code >>, lines |-> lines, op |-> NoOperation]
Proceed(op) == [exit |-> <<>>, lines |-> <<>>, op |-> op]

BulkOperation(name, list, isDangerous, hasPreview) ==
  [name |-> name, items |-> list, isDangerous |-> isDangerous, hasPreview |-> hasPreview]

\* import.ts lines 28-47, and the operation of lines 49-81.
importFront(c) ==
  LET file == c.file[1]
      parseResult == parseSubscriberCSV(file.lines)
  IN IF ~file.exists THEN Stop(5, error("Cannot read file", 0))
     ELSE IF ~file.readable THEN Stop(5, error("CSV parse error.", 0))
     ELSE IF Len(parseResult.errors) > 0 THEN Stop(6, printCsvErrors(parseResult.errors))
     ELSE Proceed(BulkOperation("Import Subscribers", parseResult.emails, TRUE, TRUE))

\* The selection of targets shared by tag, suppress and subscribe.
selectTargets(c, name, isDangerous) ==
  LET targets == resolveEmailTargets(c.email, c.file) IN
  IF targets.kind = "exit" THEN Stop(targets.code, error(targets.message, 0))
  ELSE IF targets.kind = "null"
    THEN Stop(2, error("Provide --email <email> or --file <path> to select subscribers.", 0))
  ELSE IF Len(targets.errors) > 0 THEN Stop(6, printCsvErrors(targets.errors))
  ELSE Proceed(BulkOperation(name, targets.emails, isDangerous, FALSE))

\* import.ts lines 131-148: suppress.
suppressFront(c) ==
  selectTargets(c, IF c.unsuppress THEN "Unsuppress Subscribers" ELSE "Suppress Subscribers", TRUE)

\* subscribe.ts lines 26-43.
subscribeFront(c) == selectTargets(c, "Re-subscribe Subscribers", TRUE)

buildActionName(add, remove) ==
  IF add # <<>> /\ remove # <<>> THEN "Add/Remove Subscriber Tags"
  ELSE IF add # <<>> THEN "Add Tags to Subscribers"
  ELSE "Remove Tags from Subscribers"

\* tag command, lines 30-62; the operation has no isDangerous.
tagFront(c) ==
  LET addTags == normalizeTagList(c.add)
      removeTags == normalizeTagList(c.remove)
  IN IF addTags = <<>> /\ removeTags = <<>>
       THEN Stop(2, error("Specify --add and/or --remove tags.", 0))
       ELSE selectTargets(c, buildActionName(addTags, removeTags), FALSE)

front(c) ==
  CASE c.name = "import" -> importFront(c)
    [] c.name = "tag" -> tagFront(c)
    [] c.name = "suppress" -> suppressFront(c)
    [] c.name = "subscribe" -> subscribeFront(c)

RemoteCall(method, target, tagName) == [method |-> method, target |-> target, tagName |-> tagName]

RECURSIVE flatten(_)
flatten(lists) == IF lists = <<>> THEN <<>> ELSE Head(lists) \o flatten(Tail(lists))

\* Mutant of applyTagMutations: the tags are walked first, the emails inside.
applyTagMutationsByTag(emails, add, remove) ==
  flatten([t \in 1..Len(add) |-> [i \in 1..Len(emails) |-> RemoteCall("addTag", emails[i], add[t])]])
  \o flatten([t \in 1..Len(remove) |-> [i \in 1..Len(emails) |-> RemoteCall("removeTag", emails[i], remove[t])]])

\* applyTagMutations: the requests in the order the loops make them.
applyTagMutations(emails, add, remove) ==
  flatten([i \in 1..Len(emails) |->
            [t \in 1..Len(add) |-> RemoteCall("addTag", emails[i], add[t])]
            \o [t \in 1..Len(remove) |-> RemoteCall("removeTag", emails[i], remove[t])]])

\* for (const email of emails) { await bento.method(email) }
perEmail(method, emails) == [i \in 1..Len(emails) |-> RemoteCall(method, emails[i], <<>>)]

\* The requests execute(items) makes, in order, when none of them fails.
requests(c, list) ==
  CASE c.name = "import" -> << RemoteCall("importSubscribers", list, <<>>) >>
    [] c.name = "tag" -> applyTagMutations(list, normalizeTagList(c.add), normalizeTagList(c.remove))
    [] c.name = "suppress" -> perEmail(IF c.unsuppress THEN "subscribe" ELSE "unsubscribe", list)
    [] c.name = "subscribe" -> perEmail("subscribe", list)

\* The data of a command's success envelope; a key it lacks is <<>>.
ResultData(key, count, action, added, removed) ==
  [key |-> key, count |-> count, action |-> action, added |-> added, removed |-> removed]

\* emitSuccess, emitTagResult, emitSuppressResult, emitResult.
emitResult(c, count) ==
  LET data ==
        CASE c.name = "import" -> ResultData("imported", count, "", <<>>, <<>>)
          [] c.name = "tag" ->
               ResultData("updated", count, "", normalizeTagList(c.add), normalizeTagList(c.remove))
          [] c.name = "suppress" ->
               ResultData("updated", count, IF c.unsuppress THEN "unsuppress" ELSE "suppress", <<>>, <<>>)
          [] c.name = "subscribe" -> ResultData("updated", count, "subscribe", <<>>, <<>>)
  IN IF mode = "json"
       THEN Emitted(<<>>, json(Envelope(TRUE, <<>>, << data >>, Meta(count, <<>>))))
       ELSE Emitted(success("Updated count subscriber(s).", count), <<>>)

\* Mutant of awaited: the next request starts while one is in flight.
awaitedNever(pending) == TRUE

\* await bento.method(...): the loop goes on when the request has settled.
awaited(pending) == pending = 0

(***************************************************************************)
(* Safety.parseOptions on its own, applied to raw option values of every   *)
(* kind: absent, numbers, strings, booleans.                               *)
(***************************************************************************)
RawNumbers ==
  { <<>>, << Num(10) >>, << Num(1) >>, << Num(0) >>, << Num(0 - 5) >>,
    << Fraction(2) >>, << Fraction(0) >>, << Fraction(0 - 1) >>, << NaN >>, << Infinity >>,
    << Str(<< "1", "0" >>) >>, << Str(<< "-", "5" >>) >>, << Str(<< "a", "b", "c" >>) >>,
    << Str(<< "2", ".", "5" >>) >>, << Str(<< "0", ".", "5" >>) >>, << Str(<< " ", "3", " " >>) >>,
    << Str(<<>>) >> }

RawFlags ==
  { <<>>, << Bool(TRUE) >>, << Bool(FALSE) >>, << Str(<< "y", "e", "s" >>) >>, << Str(<<>>) >>,
    << Num(0) >> }

RawOptions == [dryRun : RawFlags, limit : RawNumbers, sample : RawNumbers, confirm : RawFlags]

InitOptions ==
  /\ config = DEFAULT_CONFIG
  /\ mode = "normal"
  /\ interactive = FALSE
  /\ outInteractive = FALSE
  /\ envAutoConfirm = <<>>
  /\ SafetyIdle
  /\ cmdPc = "start"
  /\ cmd \in { [name |-> "parseOptions", opts |-> raw] : raw \in RawOptions }
  /\ resolved = Unresolved
  /\ exitCode = <<>>
  /\ remoteCalls = <<>>
  /\ inFlight = 0
  /\ errLines = <<>>
  /\ NoProfiles

ParseOptions ==
  /\ cmdPc = "start"
  /\ cmd.name = "parseOptions"
  /\ options' = parseOptions(cmd.opts)
  /\ cmdPc' = "parsed"
  /\ UNCHANGED << environment, spinner, pc, operation, items, sampleItems, executions,
                  received, confirmCalls, calls, out, envelopes, outcome, answers, settled, ret >>
  /\ UNCHANGED << cmd, resolved, exitCode, remoteCalls, inFlight, errLines >>
  /\ UNCHANGED profileVars

NextOptions == ParseOptions

SpecOptions == InitOptions /\ [][NextOptions]_allVars

(***************************************************************************)
(* The command lines tried: every selector, every safety flag, a list      *)
(* above the confirmation threshold, and the shapes of --add / --remove.   *)
(***************************************************************************)
Letters == << "a", "b", "c", "d", "e", "f", "g", "h", "i", "j", "k", "l", "m", "n" >>

EmailAt(i) == << Letters[i], "@", "x", ".", "c", "o", "m" >>

\* More emails than confirmThreshold.
BulkCount == DefaultConfirmThreshold + 2

TwoValidFile == File(TRUE, TRUE, << EmailHeader, LowerEmail, OtherEmail >>)
PartlyValidFile == File(TRUE, TRUE, << EmailHeader, LowerEmail, NoDotEmail >>)
PlainFile == File(TRUE, TRUE, << MixedEmail, OtherEmail, LowerEmail >>)
EmptyFile == File(TRUE, TRUE, <<>>)
MissingFile == File(FALSE, FALSE, <<>>)
UnreadableFile == File(TRUE, FALSE, <<>>)
BulkFile == File(TRUE, TRUE, << EmailHeader >> \o [i \in 1..BulkCount |-> EmailAt(i)])

SelectorFiles ==
  { TwoValidFile, PartlyValidFile, PlainFile, EmptyFile, MissingFile, UnreadableFile }

SelectorEmails == { EmptyString, BlankString, NoDotEmail, MixedEmail }

Vip == << "v", "i", "p" >>
Trial == << "t", "r", "i", "a", "l" >>

\* --add values: unset, one tag, two entries naming vip twice and trial, a lone comma.
AddLists == { <<>>, << Vip >>, << Vip \o << "," >> \o Trial, << " " >> \o Vip >>, << << "," >> >> }
RemoveLists == { <<>>, << Trial >> }

\* --limit and --sample values: unset, "1", "0", "abc".
FlagValues == { <<>>, << << "1" >> >>, << << "0" >> >>, << << "a", "b", "c" >> >> }

Optional(S) == { <<>> } \cup { << x >> : x \in S }

CommandLine(name, email, file) ==
  [NoCommandLine EXCEPT !.name = name, !.email = email, !.file = file,
                        !.add = IF name = "tag" THEN << Vip >> ELSE <<>>]

SelectorCommands ==
  { [CommandLine(name, email, file) EXCEPT !.confirm = confirm] :
      name \in CommandNames \ { "import" },
      email \in Optional(SelectorEmails),
      file \in Optional(SelectorFiles),
      confirm \in BOOLEAN }
  \cup
  { [CommandLine("import", <<>>, << file >>) EXCEPT !.confirm = confirm] :
      file \in SelectorFiles, confirm \in BOOLEAN }

FlagCommands ==
  { [CommandLine(name, <<>>, << TwoValidFile >>) EXCEPT
       !.dryRun = flags[1], !.confirm = flags[2], !.limit = flags[3], !.sample = flags[4]] :
      name \in CommandNames,
      flags \in BOOLEAN \X BOOLEAN \X FlagValues \X (FlagValues \ { << << "0" >> >> }) }

BulkCommands ==
  { [CommandLine(name, <<>>, << BulkFile >>) EXCEPT !.confirm = confirm] :
      name \in CommandNames \ { "import" }, confirm \in BOOLEAN }
  \cup
  { [CommandLine("suppress", <<>>, << BulkFile >>) EXCEPT !.unsuppress = TRUE, !.confirm = TRUE] }

TagCommands ==
  { [CommandLine("tag", selector[1], selector[2]) EXCEPT
       !.add = add, !.remove = remove, !.confirm = TRUE] :
      selector \in { << << LowerEmail >>, <<>> >>, << <<>>, << TwoValidFile >> >> },
      add \in AddLists, remove \in RemoveLists }

\* tags delete <name> [--confirm]
DeleteCommands ==
  { [NoCommandLine EXCEPT !.name = "delete", !.tag = name, !.confirm = confirm] :
      name \in { Vip, BlankString }, confirm \in BOOLEAN }

Commands ==
  SelectorCommands \cup FlagCommands \cup BulkCommands \cup TagCommands \cup DeleteCommands

InitCmd ==
  /\ config = DEFAULT_CONFIG
  /\ mode \in OutputModes
  /\ interactive \in BOOLEAN
  /\ outInteractive = interactive
  /\ envAutoConfirm = <<>>
  /\ SafetyIdle
  /\ cmdPc = "start"
  /\ cmd \in Commands
  /\ resolved = Unresolved
  /\ exitCode = <<>>
  /\ remoteCalls = <<>>
  /\ inFlight = 0
  /\ errLines = <<>>
  /\ NoProfiles

\* The action's function returns and the process ends on its own, with
\* the exit status of a process nothing has set: 0.
actionReturns ==
  /\ cmdPc' = IF pc' = "done" THEN "ended" ELSE "protecting"
  /\ exitCode' = IF pc' = "done" THEN << 0 >> ELSE exitCode

\* command.action up to process.exit, to the return of protect, or to its
\* first suspension.
CmdStart ==
  /\ cmdPc = "start"
  /\ cmd.name \in CommandNames
  /\ LET f == front(cmd) IN
       IF f.exit # <<>> THEN
         /\ exitCode' = f.exit
         /\ errLines' = errLines \o f.lines
         /\ cmdPc' = "exited"
         /\ UNCHANGED vars
       ELSE
         /\ Protect(f.op, parseOptions(commanderOpts(cmd)))
         /\ actionReturns
         /\ UNCHANGED errLines
  /\ UNCHANGED << cmd, resolved, remoteCalls, inFlight >>
  /\ UNCHANGED profileVars

\* The prompt of protect is answered.
CmdAnswer(confirmed) ==
  /\ cmdPc = "protecting"
  /\ Answer(confirmed)
  /\ actionReturns
  /\ UNCHANGED << cmd, resolved, remoteCalls, inFlight, errLines >>
  /\ UNCHANGED profileVars

\* execute sends its next request.
RemoteStart ==
  /\ cmdPc = "protecting"
  /\ pc = "executing"
  /\ awaited(inFlight)
  /\ Len(remoteCalls) < Len(requests(cmd, received))
  /\ remoteCalls' = Append(remoteCalls, requests(cmd, received)[Len(remoteCalls) + 1])
  /\ inFlight' = inFlight + 1
  /\ UNCHANGED << vars, cmdPc, cmd, resolved, exitCode, errLines >>
  /\ UNCHANGED profileVars

\* A request resolves; after the last one execute reports the result.
RemoteResolves ==
  /\ cmdPc = "protecting"
  /\ pc = "executing"
  /\ inFlight > 0
  /\ inFlight' = inFlight - 1
  /\ IF inFlight' = 0 /\ Len(remoteCalls) = Len(requests(cmd, received)) THEN
       LET emitted == emitResult(cmd, Len(received)) IN
       /\ out' = out \o emitted.out
       /\ envelopes' = envelopes \o emitted.env
       /\ cmdPc' = "emitted"
     ELSE UNCHANGED << out, envelopes, cmdPc >>
  /\ UNCHANGED << environment, spinner, pc, operation, options, items, sampleItems,
                  executions, received, confirmCalls, calls, outcome, answers, settled, ret >>
  /\ UNCHANGED << cmd, resolved, exitCode, remoteCalls, errLines >>
  /\ UNCHANGED profileVars

\* A request rejects: execute rejects, protect rethrows, and the action's
\* catch hands the error to handleSubscriberError.
RemoteRejects(e) ==
  /\ cmdPc = "protecting"
  /\ inFlight > 0
  /\ ExecuteRejects(e)
  /\ inFlight' = inFlight - 1
  /\ errLines' = errLines \o handleSubscriberError(e).lines
  /\ exitCode' = << handleSubscriberError(e).code >>
  /\ cmdPc' = "exited"
  /\ UNCHANGED << cmd, resolved, remoteCalls >>
  /\ UNCHANGED profileVars

\* execute has returned: protect stops the spinner and returns.
CmdFinish ==
  /\ cmdPc = "emitted"
  /\ ExecuteResolves("undefined")
  /\ actionReturns
  /\ UNCHANGED << cmd, resolved, remoteCalls, inFlight, errLines >>
  /\ UNCHANGED profileVars

\* tags delete: the action up to process.exit, or into confirmAction.
DeleteStart ==
  /\ cmdPc = "start"
  /\ cmd.name = "delete"
  /\ IF trim(cmd.tag) = <<>> THEN
       /\ errLines' = errLines \o error("Tag name cannot be empty.", 0)
       /\ exitCode' = << 1 >>
       /\ cmdPc' = "exited"
       /\ UNCHANGED vars
     ELSE
       /\ ConfirmAction([confirm |-> cmd.confirm])
       /\ cmdPc' = "confirming"
       /\ UNCHANGED << exitCode, errLines >>
  /\ UNCHANGED << cmd, resolved, remoteCalls, inFlight >>
  /\ UNCHANGED profileVars

\* The prompt of confirmAction is answered.
DeleteAnswer(confirmed) ==
  /\ cmdPc = "confirming"
  /\ ConfirmAnswer(confirmed)
  /\ UNCHANGED cmdVars
  /\ UNCHANGED profileVars

\* tags delete after confirmAction has returned: the cancellation report
\* and return, or the spinner, the error and process.exit(1).
DeleteProceeds ==
  /\ cmdPc = "confirming"
  /\ pc = "done"
  /\ IF ret = Value("false") THEN
       /\ out' = out \o warn("Cancelled.", 0)
       /\ envelopes' = envelopes \o
            (IF mode = "json"
               THEN json(Envelope(TRUE, <<>>, << Data(FALSE, TRUE, 0, <<>>) >>, Meta(0, <<>>)))
               ELSE <<>>)
       /\ exitCode' = << 0 >>
       /\ cmdPc' = "ended"
       /\ UNCHANGED << calls, errLines >>
     ELSE
       /\ out' = out \o (IF startSpinnerActs
                           THEN << Line("spinner", "start", 0), Line("spinner", "stop", 0) >>
                           ELSE <<>>)
       /\ calls' = calls \o << "startSpinner", "failSpinner" >>
       /\ errLines' = errLines \o error("Tag deletion is not currently supported by the Bento API.", 0)
       /\ exitCode' = << 1 >>
       /\ cmdPc' = "exited"
       /\ UNCHANGED envelopes
  /\ UNCHANGED << environment, spinner, pc, operation, options, items, sampleItems, executions,
                  received, confirmCalls, outcome, answers, settled, ret >>
  /\ UNCHANGED << cmd, resolved, remoteCalls, inFlight >>
  /\ UNCHANGED profileVars

NextCmd ==
  \/ CmdStart
  \/ \E confirmed \in BOOLEAN : CmdAnswer(confirmed)
  \/ RemoteStart
  \/ RemoteResolves
  \/ \E e \in RemoteErrors : RemoteRejects(e)
  \/ CmdFinish
  \/ DeleteStart
  \/ \E confirmed \in BOOLEAN : DeleteAnswer(confirmed)
  \/ DeleteProceeds

SpecCmd == InitCmd /\ [][NextCmd]_allVars

(***************************************************************************)
(* Properties                                                              *)
(***************************************************************************)
Called == pc # "idle"

NonEmpty == Len(operation.items) > 0

AutoConfirm == isTruthyEnv(envAutoConfirm)

\* The number of items the limit leaves, computed from protect's arguments.
ExpectedCount ==
  IF options.limit # <<>> /\ options.limit[1] > 0
    THEN Min(options.limit[1], Len(operation.items))
    ELSE Len(operation.items)

Occurrences(list, x) == Cardinality({ i \in DOMAIN list : list[i] = x })

Precedes(list, a, b) ==
  \A i, j \in DOMAIN list : (list[i] = a /\ list[j] = b) => i < j

Last(list) == list[Len(list)]

\* C1: operation.execute is invoked at most once per protect call, and not
\* at all when the item list is empty, dryRun is set, the prompt was
\* declined, or the run is non-interactive without confirm or auto-confirm.
C1_ExecuteAtMostOnce ==
  /\ executions <= 1
  /\ Occurrences(calls, "execute") = executions
  /\ (Called /\ ( \/ ~NonEmpty
                  \/ options.dryRun
                  \/ FALSE \in { answers[i] : i \in DOMAIN answers }
                  \/ (~interactive /\ ~options.confirm /\ ~AutoConfirm) ))
       => executions = 0

C1_Witness ==
  /\ pc = "done"
  /\ answers = << TRUE >>
  /\ executions = 1
  /\ outcome = "executed"

\* C2: with dryRun set, protect returns null, never calls execute and never
\* prompts, whatever the other inputs are.
C2_DryRunNeverExecutes ==
  (Called /\ options.dryRun) =>
    /\ pc = "done"
    /\ ret = Null
    /\ executions = 0
    /\ confirmCalls = 0

C2_Witness ==
  /\ pc = "done"
  /\ options.dryRun
  /\ options.confirm
  /\ operation.isDangerous
  /\ Len(operation.items) = TestItemCount
  /\ outcome = "dryRun"

C4_ConfirmBypassesPrompt ==
  (Called /\ NonEmpty /\ ~options.dryRun /\ (options.confirm \/ AutoConfirm)) =>
    /\ confirmCalls = 0
    /\ executions = 1
    /\ pc \in {"executing", "done"}

C4_Witness ==
  /\ pc = "done"
  /\ ~options.confirm
  /\ AutoConfirm
  /\ interactive
  /\ operation.isDangerous
  /\ Len(items) >= config.confirmThreshold
  /\ executions = 1
  /\ confirmCalls = 0

\* C5: non-dangerous, interactive, no confirm, no auto-confirm, no dryRun:
\* a prompt is issued iff the count after limiting reaches confirmThreshold;
\* then exactly once and before execute; below the threshold execute runs
\* once with no prompt.
C5_ThresholdPrompt ==
  (Called /\ NonEmpty /\ ~options.dryRun /\ ~operation.isDangerous
     /\ interactive /\ ~options.confirm /\ ~AutoConfirm) =>
    /\ confirmCalls <= 1
    /\ (confirmCalls = 1) <=> (ExpectedCount >= config.confirmThreshold)
    /\ Precedes(calls, "confirmPrompt", "execute")
    /\ Occurrences(calls, "confirmPrompt") = confirmCalls
    /\ (ExpectedCount < config.confirmThreshold) => (executions = 1 /\ confirmCalls = 0)

C5_Witness ==
  /\ pc = "done"
  /\ ~operation.isDangerous
  /\ interactive /\ ~options.confirm /\ ~AutoConfirm
  /\ Len(operation.items) = TestItemCount
  /\ config.confirmThreshold = DefaultConfirmThreshold
  /\ options.limit = <<>>
  /\ calls = << "confirmPrompt", "startSpinner", "execute", "stopSpinner" >>

\* C6: a dangerous operation, interactive, no confirm, no auto-confirm, no
\* dryRun, always gets a prompt before execute, for every non-zero count.
C6_DangerousAlwaysPrompts ==
  (Called /\ NonEmpty /\ ~options.dryRun /\ operation.isDangerous
     /\ interactive /\ ~options.confirm /\ ~AutoConfirm) =>
    /\ confirmCalls = 1
    /\ Occurrences(calls, "confirmPrompt") = 1
    /\ Precedes(calls, "confirmPrompt", "execute")
    /\ (executions = 1) => (answers = << TRUE >>)

C6_Witness ==
  /\ pc = "done"
  /\ operation.isDangerous
  /\ Len(operation.items) = 1
  /\ Len(operation.items) < config.confirmThreshold
  /\ answers = << TRUE >>
  /\ executions = 1

\* C7: a declined prompt makes protect return null without calling execute;
\* the outcome is 'cancelled', in JSON mode an envelope with success = true
\* and data.cancelled = true.
C7_DeclineCancels ==
  (FALSE \in { answers[i] : i \in DOMAIN answers }) =>
    /\ pc = "done"
    /\ ret = Null
    /\ executions = 0
    /\ Occurrences(calls, "execute") = 0
    /\ outcome = "cancelled"
    /\ (mode = "json") =>
         /\ Len(envelopes) = 1
         /\ envelopes[1].success = TRUE
         /\ envelopes[1].error = <<>>
         /\ envelopes[1].data # <<>>
         /\ envelopes[1].data[1].cancelled = TRUE
    /\ (mode = "normal") => Last(out) = Line("warn", "Operation cancelled.", 0)

C7_Witness ==
  /\ answers = << FALSE >>
  /\ mode = "json"
  /\ outcome = "cancelled"

\* C8: when execute is reached, it receives exactly the first min(k, N)
\* items of operation.items in their order for a positive limit k, and the
\* whole list when no limit is set.
C8_LimitIsPrefix ==
  (executions >= 1) =>
    received = (IF options.limit # <<>> /\ options.limit[1] > 0
                  THEN SubSeq(operation.items, 1, Min(options.limit[1], Len(operation.items)))
                  ELSE operation.items)

C8_Witness ==
  /\ executions = 1
  /\ options.limit = << 2 >>
  /\ Len(operation.items) = MaxItems
  /\ received = << ItemAt(1), ItemAt(2) >>

\* C9 as claimed: sample = 2 on a 10-item operation previews exactly 2 rows
\* for every value of limit.
C9_SampleIgnoresLimit ==
  (Called /\ options.sample = << 2 >> /\ Len(operation.items) = TestItemCount) =>
    Len(sampleItems) = 2

\* C9 as amended: the preview holds min(requested sample, count after
\* limiting) rows: 2 rows for sample = 2 when the limit leaves two items or
\* more, 1 row when limit = 1.
C9_SampleWithinLimited ==
  (Called /\ NonEmpty /\ options.sample # <<>> /\ options.sample[1] > 0) =>
    /\ Len(sampleItems) = Min(options.sample[1], ExpectedCount)
    /\ sampleItems = SubSeq(operation.items, 1, Len(sampleItems))
    /\ (mode = "normal") =>
         \E i \in DOMAIN out : out[i] = Line("table", "rows", Len(sampleItems))

C9_Witness ==
  /\ Called
  /\ Len(operation.items) = TestItemCount
  /\ options.sample = << 2 >>
  /\ options.limit = << 1 >>
  /\ Len(sampleItems) = 1

\* C10: when execute throws, protect throws that same error, has called
\* execute once only, and has marked the spinner failed before the error
\* leaves it.
C10_RethrowsSameError ==
  (settled.kind = "throw") =>
    /\ pc = "done"
    /\ ret = settled
    /\ executions = 1
    /\ Occurrences(calls, "execute") = 1
    /\ Last(calls) = "failSpinner"
    /\ spinner = "null"
    /\ (mode = "normal" /\ outInteractive) => Last(out) = Line("spinner", "fail", 0)
    /\ outcome = "failed"

C10_Witness ==
  /\ settled = Throw("TIMEOUT")
  /\ ret = Throw("TIMEOUT")
  /\ mode = "normal" /\ outInteractive
  /\ Last(out) = Line("spinner", "fail", 0)

\* C12 as claimed: a refusal is reported in every output mode: a
\* success = false envelope with the remediation hint in JSON mode, the same
\* text as a warning in normal mode and in quiet mode.
C12_RefusalNeverSilent ==
  (outcome = "refused") =>
    IF mode = "json"
      THEN \E i \in DOMAIN envelopes :
             envelopes[i].success = FALSE /\ envelopes[i].error = << RefusalMessage >>
      ELSE \E i \in DOMAIN out : out[i] = Line("warn", RefusalMessage, 0)

\* C20: every envelope the safety engine emits has success = true with
\* error = null and data non-null, or success = false with an error string
\* and data = null; no-op, dry-run and cancelled give success = true,
\* refused gives success = false.
C20_EnvelopeShape ==
  /\ \A i \in DOMAIN envelopes :
       /\ envelopes[i].success => (envelopes[i].error = <<>> /\ envelopes[i].data # <<>>)
       /\ ~envelopes[i].success => (envelopes[i].error # <<>> /\ envelopes[i].data = <<>>)
  /\ (mode = "json" /\ outcome \in {"noop", "dryRun", "cancelled"}) =>
       (Len(envelopes) = 1 /\ envelopes[1].success = TRUE)
  /\ (mode = "json" /\ outcome = "refused") =>
       (Len(envelopes) = 1 /\ envelopes[1].success = FALSE)

C20_Witness ==
  /\ mode = "json"
  /\ outcome = "refused"
  /\ Len(envelopes) = 1
  /\ envelopes[1].error = << RefusalMessage >>
  /\ envelopes[1].data = <<>>

\* C23: BENTO_AUTO_CONFIRM bypasses the prompt and the non-interactive
\* refusal for "1", "true", "yes", "on" in any case and padding; with any
\* other value protect prompts and refuses as it does when the variable is
\* unset.
C23_AutoConfirmExactlyTruthy ==
  (Called /\ NonEmpty /\ ~options.dryRun) =>
    IF envAutoConfirm \in TruthyEnvValues THEN
      /\ confirmCalls = 0
      /\ executions = 1
      /\ outcome \notin { "refused", "cancelled" }
    ELSE
      LET wanted ==
            /\ ~options.confirm
            /\ (~interactive \/ operation.isDangerous \/ ExpectedCount >= config.confirmThreshold)
      IN
      /\ (wanted /\ ~interactive) => (outcome = "refused" /\ confirmCalls = 0 /\ executions = 0)
      /\ (wanted /\ interactive) => confirmCalls = 1
      /\ ~wanted => (confirmCalls = 0 /\ executions = 1)

C23_Witness ==
  /\ Called
  /\ envAutoConfirm = << <<"f", "a", "l", "s", "e">> >>
  /\ ~interactive
  /\ ~options.confirm
  /\ outcome = "refused"
  /\ executions = 0

\* C26: the sample holds min(defaultSampleSize, count) items when the
\* requested size is omitted or not positive and min(requested, count)
\* otherwise, count being the number of items after limiting; so it is
\* between 0 and count, and 0 only when count is 0.
C26_SampleSizeResolution ==
  Called =>
    LET count == Len(items)
        size == Len(sampleItems)
    IN
    /\ NonEmpty => count = ExpectedCount
    /\ size = (IF options.sample = <<>> \/ options.sample[1] <= 0
                 THEN Min(config.defaultSampleSize, count)
                 ELSE Min(options.sample[1], count))
    /\ 0 <= size /\ size <= count
    /\ (size = 0) <=> (count = 0)

C26_Witness ==
  /\ Called
  /\ config = DEFAULT_CONFIG
  /\ Len(operation.items) = TestItemCount
  /\ options.sample = << 0 >>
  /\ options.limit = << 2 >>
  /\ Len(sampleItems) = 2

\* C27: with a non-empty list and a preview hook, the hook is called
\* once, with the first sampleSize items of the limited list, before the
\* dry-run return, the prompt and execute, in every output mode.
C27_PreviewHookOnceInEveryMode ==
  (Called /\ NonEmpty /\ operation.hasPreview) =>
    /\ Occurrences(calls, "preview") = 1
    /\ sampleItems = SubSeq(items, 1, Len(sampleItems))
    /\ Precedes(calls, "preview", "confirmPrompt")
    /\ Precedes(calls, "preview", "execute")

\* C27 as amended: the hook belongs to the rendering of the preview. In
\* normal mode it is called once, with the first sampleSize items of the
\* limited list, before the dry-run return, the prompt and execute; in
\* quiet and JSON mode, where the preview is suppressed, and without a
\* hook, it is not called.
C27_PreviewHookWhenRendered ==
  Called =>
    /\ sampleItems = SubSeq(items, 1, Len(sampleItems))
    /\ IF NonEmpty /\ operation.hasPreview /\ mode = "normal"
         THEN /\ Occurrences(calls, "preview") = 1
              /\ calls[1] = "preview"
         ELSE Occurrences(calls, "preview") = 0

C27_Witness ==
  /\ mode = "normal"
  /\ operation.hasPreview
  /\ outcome = "dryRun"
  /\ calls = << "preview" >>
  /\ Len(sampleItems) = 2

\* C22: confirmAction returns true without a prompt when confirm is true
\* or auto-confirm is enabled; otherwise, in a non-interactive session, it
\* returns false without a prompt; otherwise it prompts once and returns
\* the user's answer.
C22_ConfirmActionDecision ==
  (pc \in { "confirming", "done" }) =>
    IF options.confirm \/ envAutoConfirm = << <<" ", "O", "n", " ">> >> THEN
      /\ pc = "done" /\ ret = Value("true") /\ confirmCalls = 0
    ELSE IF ~interactive THEN
      /\ pc = "done" /\ ret = Value("false") /\ confirmCalls = 0
    ELSE
      /\ confirmCalls = 1
      /\ (pc = "done") =>
           /\ Len(answers) = 1
           /\ ret = Value(IF answers[1] THEN "true" ELSE "false")

C22_Witness ==
  /\ pc = "done"
  /\ ~options.confirm
  /\ envAutoConfirm = <<>>
  /\ interactive
  /\ confirmCalls = 1
  /\ answers = << TRUE >>
  /\ ret = Value("true")

(***************************************************************************)
(* Properties of the target resolver (SpecResolve).                        *)
(***************************************************************************)
\* The strings the resolver was given: the --email value, else the file's lines.
InputValues ==
  IF cmd.email # <<>> /\ cmd.email[1] # <<>> THEN cmd.email
  ELSE IF cmd.file # <<>> THEN cmd.file[1].lines
  ELSE <<>>

\* The lines of the input that spell address e, in any case and padding.
Spellings(e) ==
  { k \in DOMAIN InputValues :
      isValidEmail(trim(InputValues[k])) /\ toLowerCase(trim(InputValues[k])) = e }

FirstSpelling(e) == CHOOSE k \in Spellings(e) : \A m \in Spellings(e) : k <= m

\* C16: every email of an accepted input's target list is valid and
\* lowercase, occurs once, comes from the input, and the list is in the
\* order of first occurrence in the input.
C16_TargetsValidLowerUnique ==
  (cmdPc = "resolved" /\ resolved.kind = "targets") =>
    LET emails == resolved.emails IN
    /\ \A i \in DOMAIN emails :
         /\ isValidEmail(emails[i])
         /\ toLowerCase(emails[i]) = emails[i]
         /\ Spellings(emails[i]) # {}
    /\ \A i, j \in DOMAIN emails : i # j => emails[i] # emails[j]
    /\ \A i, j \in DOMAIN emails :
         i < j => FirstSpelling(emails[i]) < FirstSpelling(emails[j])

C16_Witness ==
  /\ cmdPc = "resolved"
  /\ cmd.file # <<>>
  /\ cmd.file[1].lines = << MixedEmail, OtherEmail, LowerEmail >>
  /\ resolved = Targets(<< LowerEmail, OtherEmail >>, <<>>)

\* The input spells one address only, in whatever case and padding.
OnlySpells(e) ==
  /\ InputValues # <<>>
  /\ \A k \in DOMAIN InputValues : k \in Spellings(e)

\* C17: --email "User@Example.COM" and a file holding user@example.com
\* resolve to the same one-element lowercase list with no errors; every
\* resolved email is a fixed point of normalizeEmail, and an input made of
\* case variants of one address resolves to that one address.
C17_CaseVariantsCollapse ==
  (cmdPc = "resolved") =>
    /\ (cmd.email = << MixedEmail >>) => resolved = Targets(<< LowerEmail >>, <<>>)
    /\ (cmd.file # <<>> /\ cmd.file[1] = File(TRUE, TRUE, << LowerEmail >>)) =>
         resolved = Targets(<< LowerEmail >>, <<>>)
    /\ OnlySpells(LowerEmail) => resolved = Targets(<< LowerEmail >>, <<>>)
    /\ \A i \in DOMAIN resolved.emails :
         normalizeEmail(resolved.emails[i]) = resolved.emails[i]

C17_Witness ==
  /\ cmdPc = "resolved"
  /\ cmd.email = << MixedEmail >>
  /\ resolved.emails = << LowerEmail >>
  /\ resolved.errors = <<>>

(***************************************************************************)
(* Properties of the bulk subscriber commands (SpecCmd).                   *)
(***************************************************************************)
\* The process is over: the action returned or process.exit was called.
Over == cmdPc \in { "ended", "exited" }

\* C11: import of a file with 2 valid rows and --limit 1, non-interactive
\* and without --confirm, is refused: importSubscribers is never called
\* and the exit status is not 0.
C11_RefusedImportExitsNonZero ==
  ( /\ Over
    /\ cmd.name = "import"
    /\ cmd.file = << TwoValidFile >>
    /\ cmd.limit = << << "1" >> >>
    /\ ~cmd.confirm /\ ~cmd.dryRun
    /\ ~interactive ) =>
      /\ outcome = "refused"
      /\ remoteCalls = <<>>
      /\ exitCode # << 0 >>

\* The exit codes the documentation lists for a failed command.
DocumentedFailureCodes == { 1, 2, 5, 6 }

\* C13: a failed remote call ends the command with a documented exit
\* code, and an auth error with code 1.
C13_FailureExitsDocumentedCode ==
  (outcome = "failed" /\ Over) =>
    /\ exitCode # <<>>
    /\ exitCode[1] \in DocumentedFailureCodes
    /\ (settled \in { Throw("AUTH_REQUIRED"), Throw("AUTH_FAILED") }) => exitCode = << 1 >>

\* The raw value of a numeric flag is given and is not a number.
malformed(raw) == raw # <<>> /\ parseInt(raw[1]).nan

\* C14: a --limit or --sample that is not a number is a usage error: the
\* command exits with 2 and protect is never entered, so there is no
\* preview, prompt or remote call.
C14_MalformedFlagIsUsageError ==
  ((malformed(cmd.limit) \/ malformed(cmd.sample)) /\ cmdPc # "start") =>
    /\ exitCode = << 2 >>
    /\ pc = "idle"
    /\ remoteCalls = <<>>

\* The single --email is given and is empty or invalid.
emailRejected == cmd.email # <<>> /\ ~isValidEmail(trim(cmd.email[1]))

\* No selector at all (import always has its file).
noSelector == cmd.name # "import" /\ cmd.email = <<>> /\ cmd.file = <<>>

\* The file is the selector and its parser reports an error.
parserReports ==
  /\ cmd.email = <<>>
  /\ cmd.file # <<>>
  /\ cmd.file[1].exists /\ cmd.file[1].readable
  /\ IF cmd.name = "import"
       THEN parseSubscriberCSV(cmd.file[1].lines).errors # <<>>
       ELSE parseEmailList(cmd.file[1].lines).errors # <<>>

\* C15: an empty or invalid --email (exit 2), no selector (exit 2) or a
\* parser error (exit 6) ends the command before protect is entered and
\* before any remote call.
C15_ValidationNeverReachesExecutor ==
  ((emailRejected \/ noSelector \/ parserReports) /\ cmdPc # "start") =>
    /\ pc = "idle"
    /\ remoteCalls = <<>>
    /\ exitCode = (IF emailRejected \/ noSelector THEN << 2 >> ELSE << 6 >>)

\* The emails the command line selects.
ResolvedEmails == resolveEmailTargets(cmd.email, cmd.file).emails

perItemConfirmed == cmd.name \in { "suppress", "subscribe" } /\ cmd.confirm

\* C18: a confirmed suppress or subscribe never prompts, has at most one
\* request in flight, sends its requests for the resolved emails in their
\* order, and has sent one per email when it is done.
C18_OneAwaitedCallPerEmail ==
  perItemConfirmed =>
    /\ confirmCalls = 0
    /\ inFlight <= 1
    /\ Len(remoteCalls) <= Len(ResolvedEmails)
    /\ \A k \in DOMAIN remoteCalls :
         remoteCalls[k] =
           RemoteCall(IF cmd.name = "suppress" /\ ~cmd.unsuppress THEN "unsubscribe" ELSE "subscribe",
                      ResolvedEmails[k], <<>>)
    /\ (outcome = "executed") =>
         /\ Len(remoteCalls) = Len(items)
         /\ (parseOptions(commanderOpts(cmd)).limit = <<>>) => items = ResolvedEmails

C18_Witness ==
  /\ cmdPc = "ended"
  /\ cmd.name = "suppress" /\ ~cmd.unsuppress /\ cmd.confirm
  /\ cmd.file = << BulkFile >>
  /\ interactive
  /\ outcome = "executed"
  /\ Len(remoteCalls) = DefaultConfirmThreshold + 2
  /\ remoteCalls[2] = RemoteCall("unsubscribe", EmailAt(2), <<>>)
  /\ confirmCalls = 0

\* The positions in list that hold x.
Positions(list, x) == { k \in DOMAIN list : list[k] = x }

\* The position of the email of request k in the items given to execute.
EmailIndex(k) == CHOOSE i \in DOMAIN received : received[i] = remoteCalls[k].target

\* C19: the tag command sends one addTag per (email, add-tag) and one
\* removeTag per (email, remove-tag), one at a time and in email order,
\* and reports updated = number of emails with the added and removed
\* lists; --email user@example.com --add vip --confirm sends
\* addTag(email, "vip") once and reports updated 1, added ["vip"].
C19_TagRequestsAndReport ==
  (cmd.name = "tag") =>
    LET add == normalizeTagList(cmd.add)
        remove == normalizeTagList(cmd.remove)
    IN
    /\ inFlight <= 1
    /\ \A k \in DOMAIN remoteCalls :
         /\ remoteCalls[k].target \in Range(received)
         /\ \/ remoteCalls[k].method = "addTag" /\ remoteCalls[k].tagName \in Range(add)
            \/ remoteCalls[k].method = "removeTag" /\ remoteCalls[k].tagName \in Range(remove)
         /\ Cardinality(Positions(remoteCalls, remoteCalls[k])) = 1
    /\ \A k, m \in DOMAIN remoteCalls : k < m => EmailIndex(k) <= EmailIndex(m)
    /\ (outcome = "executed") =>
         /\ Len(remoteCalls) = Len(received) * (Len(add) + Len(remove))
         /\ IF mode = "json"
              THEN Last(envelopes) =
                     Envelope(TRUE, <<>>, << ResultData("updated", Len(received), "", add, remove) >>,
                              Meta(Len(received), <<>>))
              ELSE (mode = "normal") =>
                     \E i \in DOMAIN out :
                       out[i] = Line("success", "Updated count subscriber(s).", Len(received))
         /\ (cmd.email = << LowerEmail >> /\ cmd.add = << Vip >> /\ cmd.remove = <<>>) =>
              /\ remoteCalls = << RemoteCall("addTag", LowerEmail, Vip) >>
              /\ (mode = "json") =>
                   /\ Last(envelopes).data[1].count = 1
                   /\ Last(envelopes).data[1].added = << Vip >>

C19_Witness ==
  /\ cmdPc = "ended"
  /\ mode = "json"
  /\ cmd.name = "tag" /\ cmd.email = << LowerEmail >> /\ cmd.add = << Vip >> /\ cmd.confirm
  /\ remoteCalls = << RemoteCall("addTag", LowerEmail, Vip) >>
  /\ Last(envelopes).data = << ResultData("updated", 1, "", << Vip >>, <<>>) >>
\* C21: in JSON mode a command that went through the safety engine has
\* written one JSON envelope in all when it is over, whatever the outcome,
\* and no preview table or spinner line.
C21_OneEnvelopeInJsonMode ==
  (mode = "json" /\ Over /\ pc = "done") =>
    /\ Len(envelopes) + Len(errLines) = 1
    /\ \A i \in DOMAIN out : out[i].kind \notin { "table", "spinner" }

\* C28: when the request for item i of a tag, suppress or subscribe run
\* rejects, the requests made so far stay as they are and no further one
\* can start, no success line or envelope is written, the error leaves
\* protect as it is, and the command reports it and exits non-zero.
C28_FailureAbortsRun ==
  (cmd.name \in { "tag", "suppress", "subscribe" } /\ outcome = "failed") =>
    /\ remoteCalls = SubSeq(requests(cmd, received), 1, Len(remoteCalls))
    /\ Len(remoteCalls) >= 1
    /\ ~ENABLED RemoteStart
    /\ \A i \in DOMAIN envelopes : ~envelopes[i].success
    /\ \A i \in DOMAIN out : out[i].kind # "success"
    /\ ret = Throw(settled.val)
    /\ errLines # <<>>
    /\ cmdPc = "exited"
    /\ exitCode # <<>> /\ exitCode # << 0 >>

C28_Witness ==
  /\ cmd.name = "suppress"
  /\ cmd.file = << BulkFile >>
  /\ outcome = "failed"
  /\ settled = Throw("TIMEOUT")
  /\ Len(remoteCalls) = 3
  /\ remoteCalls[3].target = EmailAt(3)
  /\ exitCode = << 4 >>

\* C30: on every path protect leaves operation.items and the options
\* object as the command built them.
C30_InputsUntouched ==
  (cmd.name \in CommandNames /\ pc # "idle") =>
    /\ operation = front(cmd).op
    /\ options = parseOptions(commanderOpts(cmd))
    /\ items = SubSeq(operation.items, 1, Len(items))

C30_Witness ==
  /\ cmd.name = "subscribe"
  /\ cmd.limit = << << "1" >> >>
  /\ outcome = "executed"
  /\ Len(operation.items) = 2
  /\ received = << LowerEmail >>

(***************************************************************************)
(* Properties of Safety.parseOptions (SpecOptions).                        *)
(***************************************************************************)
\* The raw flag values that are truthy in JavaScript.
TruthyRawFlags == { << Bool(TRUE) >>, << Str(<< "y", "e", "s" >>) >> }

\* C25: for every raw value, limit and sample are undefined or an integer
\* of at least 1, and dryRun and confirm are the truthiness of the raw
\* value.
C25_ParseOptionsPositiveIntegers ==
  (cmdPc = "parsed") =>
    /\ options.limit = <<>> \/ options.limit[1] >= 1
    /\ options.sample = <<>> \/ options.sample[1] >= 1
    /\ options.dryRun = (cmd.opts.dryRun \in TruthyRawFlags)
    /\ options.confirm = (cmd.opts.confirm \in TruthyRawFlags)

(***************************************************************************)
(* ConfigManager: the profile store.  A profile name is a sequence of     *)
(* characters; config.profiles is a plain JavaScript object, so a lookup  *)
(* config.profiles[name] finds the object's own keys and, failing those,  *)
(* the members every object inherits from Object.prototype.  The          *)
(* timestamps of a profile are read by no operation below and are left    *)
(* out; save() writes the same object to disk.                            *)
(***************************************************************************)
Prod == << "p", "r", "o", "d" >>
Staging == << "s", "t", "a", "g", "i", "n", "g" >>
Constructor == << "c", "o", "n", "s", "t", "r", "u", "c", "t", "o", "r" >>
MyProfile == << "m", "y", " ", "p", "r", "o", "f", "i", "l", "e" >>

\* The members an object literal inherits, as far as the names used here
\* reach: ({}).constructor is the function Object.
ObjectPrototype == { Constructor }

\* /^[a-zA-Z0-9_-]+$/ over the characters the names here are made of.
ProfileNameChars ==
  { "a", "c", "d", "e", "f", "g", "i", "l", "m", "n", "o", "p", "r", "s", "t", "u", "y",
    "_", "-" } \cup Digits

ProfileNames == { Prod, Staging, Constructor, MyProfile, <<>> }

ProfileInputs ==
  { [publishableKey |-> "pk-1", secretKey |-> "sk-1", siteUuid |-> "site-1"],
    [publishableKey |-> "pk-2", secretKey |-> "sk-2", siteUuid |-> "site-2"] }

\* What reading the credentials of an inherited member (a function) gives.
InheritedMember ==
  [publishableKey |-> "undefined", secretKey |-> "undefined", siteUuid |-> "undefined"]

\* config.profiles[name]: <<>> is undefined.
lookup(profiles, name) ==
  IF name \in DOMAIN profiles THEN << profiles[name] >>
  ELSE IF name \in ObjectPrototype THEN << InheritedMember >>
  ELSE <<>>

\* name in config.profiles
hasProfile(cfg, name) == name \in DOMAIN cfg.profiles \/ name \in ObjectPrototype

getCurrentProfileName(cfg) == cfg.current

\* config.profiles[config.current] || null
getCurrentProfile(cfg) ==
  IF cfg.current = <<>> THEN <<>> ELSE lookup(cfg.profiles, cfg.current[1])

validName(name) ==
  /\ name # <<>>
  /\ \A i \in 1..Len(name) : name[i] \in ProfileNameChars

setProfile(cfg, name, input) ==
  IF ~validName(name) THEN [config |-> cfg, result |-> "INVALID_NAME"]
  ELSE [config |-> [cfg EXCEPT !.profiles =
                      [n \in DOMAIN cfg.profiles \cup { name } |->
                         IF n = name THEN input ELSE cfg.profiles[n]]],
        result |-> "undefined"]

removeProfile(cfg, name) ==
  IF lookup(cfg.profiles, name) = <<>> THEN [config |-> cfg, result |-> "false"]
  ELSE [config |-> [cfg EXCEPT
                      !.profiles = [n \in DOMAIN cfg.profiles \ { name } |-> cfg.profiles[n]],
                      !.current = IF cfg.current = << name >> THEN <<>> ELSE cfg.current],
        result |-> "true"]

useProfile(cfg, name) ==
  IF lookup(cfg.profiles, name) = <<>> THEN [config |-> cfg, result |-> "PROFILE_NOT_FOUND"]
  ELSE [config |-> [cfg EXCEPT !.current = << name >>], result |-> "undefined"]

\* One call of a ConfigManager method, recorded with the state it found.
ConfigCall(op, name, done) ==
  /\ bentoConfig' = done.config
  /\ configCall' = [op |-> op, name |-> name, before |-> bentoConfig, result |-> done.result]
  /\ UNCHANGED << sdk, profile, reads, instances, resets, clientCall >>
  /\ UNCHANGED << vars, cmdVars >>

SetProfile(name, input) == ConfigCall("setProfile", name, setProfile(bentoConfig, name, input))

RemoveProfile(name) == ConfigCall("removeProfile", name, removeProfile(bentoConfig, name))

UseProfile(name) == ConfigCall("useProfile", name, useProfile(bentoConfig, name))

NextConfig ==
  \/ \E name \in ProfileNames, input \in ProfileInputs : SetProfile(name, input)
  \/ \E name \in ProfileNames : RemoveProfile(name)
  \/ \E name \in ProfileNames : UseProfile(name)

\* A ConfigManager whose file does not exist yet: load() installs
\* DEFAULT_CONFIG.
InitConfig ==
  /\ config = DEFAULT_CONFIG
  /\ mode = "normal"
  /\ interactive = FALSE
  /\ outInteractive = FALSE
  /\ envAutoConfirm = <<>>
  /\ SafetyIdle
  /\ NoCommand
  /\ NoProfiles

SpecConfig == InitConfig /\ [][NextConfig]_allVars

(***************************************************************************)
(* BentoClient: the SDK instance built lazily from the current profile.    *)
(* Every caller awaits getClient before its next statement and the awaited *)
(* read is served by the ConfigManager of the same process, so a call runs *)
(* to its return before another call or a reset starts.                    *)
(***************************************************************************)
MaxInstances == 3
MaxResets == 3
MaxReads == 2

\* new Analytics({...}) with the credentials of a profile.
Analytics(id, currentProfile, epoch) ==
  [id |-> id, epoch |-> epoch,
   siteUuid |-> currentProfile.siteUuid,
   publishableKey |-> currentProfile.publishableKey,
   secretKey |-> currentProfile.secretKey]

\* reset() that forgets the profile and keeps the instance.
resetKeepsSdk == [sdk |-> sdk, profile |-> <<>>]

reset == [sdk |-> <<>>, profile |-> <<>>]

\* getClient on a client holding cachedSdk and cachedProfile, when the
\* store would answer getCurrentProfile() with currentProfile.
getClient(cachedSdk, cachedProfile, currentProfile, id, epoch) ==
  IF cachedSdk # <<>> THEN
    [result |-> "sdk", value |-> cachedSdk, read |-> FALSE,
     sdk |-> cachedSdk, profile |-> cachedProfile]
  ELSE IF currentProfile = <<>> THEN
    [result |-> "AUTH_REQUIRED", value |-> <<>>, read |-> TRUE,
     sdk |-> cachedSdk, profile |-> cachedProfile]
  ELSE
    [result |-> "sdk", value |-> << Analytics(id, currentProfile[1], epoch) >>, read |-> TRUE,
     sdk |-> << Analytics(id, currentProfile[1], epoch) >>, profile |-> currentProfile]

GetClient ==
  /\ sdk = <<>> => (reads < MaxReads /\ instances < MaxInstances)
  /\ LET currentProfile == getCurrentProfile(bentoConfig)
         call == getClient(sdk, profile, currentProfile, instances + 1, resets)
     IN /\ sdk' = call.sdk
        /\ profile' = call.profile
        /\ reads' = IF call.read THEN reads + 1 ELSE reads
        /\ instances' = IF call.sdk # sdk THEN instances + 1 ELSE instances
        /\ clientCall' = [result |-> call.result, value |-> call.value, read |-> call.read,
                          cachedBefore |-> sdk, stored |-> currentProfile, resets |-> resets]
  /\ UNCHANGED << bentoConfig, configCall, resets >>
  /\ UNCHANGED << vars, cmdVars >>

\* bento.reset()
resetClient ==
  /\ sdk' = reset.sdk
  /\ profile' = reset.profile
  /\ resets' = resets + 1
  /\ reads' = 0
  /\ UNCHANGED << instances, clientCall >>

Reset ==
  /\ resets < MaxResets
  /\ resetClient
  /\ UNCHANGED << bentoConfig, configCall >>
  /\ UNCHANGED << vars, cmdVars >>

\* The store after a ConfigManager call, and the record of the call.
recorded(op, name, before, done) ==
  /\ bentoConfig' = done.config
  /\ configCall' = [op |-> op, name |-> name, before |-> before, result |-> done.result]

\* auth login with credentials that validated: setProfile, useProfile,
\* reset; a ConfigError ends the command before the reset.
AuthLogin(name, input) ==
  /\ resets < MaxResets
  /\ LET set == setProfile(bentoConfig, name, input)
         use == useProfile(set.config, name)
     IN IF set.result = "INVALID_NAME" THEN
          /\ recorded("setProfile", name, bentoConfig, set)
          /\ UNCHANGED << sdk, profile, reads, instances, resets, clientCall >>
        ELSE IF use.result = "PROFILE_NOT_FOUND" THEN
          /\ recorded("useProfile", name, set.config, use)
          /\ UNCHANGED << sdk, profile, reads, instances, resets, clientCall >>
        ELSE
          /\ recorded("useProfile", name, set.config, use)
          /\ resetClient
  /\ UNCHANGED << vars, cmdVars >>

\* auth logout: nothing to do without a current profile; removeProfile of
\* the current one and reset otherwise.
AuthLogout ==
  /\ resets < MaxResets
  /\ LET currentProfileName == getCurrentProfileName(bentoConfig) IN
       IF currentProfileName = <<>> THEN
         UNCHANGED profileVars
       ELSE
         /\ recorded("removeProfile", currentProfileName[1], bentoConfig,
                   removeProfile(bentoConfig, currentProfileName[1]))
         /\ resetClient
  /\ UNCHANGED << vars, cmdVars >>

\* profile use <name>
ProfileUse(name) ==
  /\ resets < MaxResets
  /\ LET use == useProfile(bentoConfig, name) IN
       /\ recorded("useProfile", name, bentoConfig, use)
       /\ IF use.result = "PROFILE_NOT_FOUND"
            THEN UNCHANGED << sdk, profile, reads, instances, resets, clientCall >>
            ELSE resetClient
  /\ UNCHANGED << vars, cmdVars >>

\* profile remove <name>, the deletion confirmed by --yes or at the prompt
\* (confirmed) or declined.
ProfileRemove(name, confirmed) ==
  /\ resets < MaxResets
  /\ IF ~hasProfile(bentoConfig, name) \/ ~confirmed THEN
       UNCHANGED profileVars
     ELSE
       LET wasCurrentProfile == getCurrentProfileName(bentoConfig) = << name >> IN
         /\ recorded("removeProfile", name, bentoConfig, removeProfile(bentoConfig, name))
         /\ IF wasCurrentProfile
              THEN resetClient
              ELSE UNCHANGED << sdk, profile, reads, instances, resets, clientCall >>
  /\ UNCHANGED << vars, cmdVars >>

NextClient ==
  \/ GetClient
  \/ Reset
  \/ \E name \in ProfileNames, input \in ProfileInputs : AuthLogin(name, input)
  \/ AuthLogout
  \/ \E name \in ProfileNames : ProfileUse(name)
  \/ \E name \in ProfileNames, confirmed \in BOOLEAN : ProfileRemove(name, confirmed)

SpecClient == InitConfig /\ [][NextClient]_allVars

(***************************************************************************)
(* Properties of the client cache (SpecClient).                            *)
(***************************************************************************)

C29_CurrentNamesAStoredProfile ==
  /\ bentoConfig.current = <<>> \/ bentoConfig.current[1] \in DOMAIN bentoConfig.profiles
  /\ (configCall.op = "useProfile" /\ configCall.name \notin DOMAIN configCall.before.profiles)
       => (configCall.result = "PROFILE_NOT_FOUND" /\ bentoConfig = configCall.before)
  /\ (configCall.op = "removeProfile" /\ configCall.before.current = << configCall.name >>)
       => bentoConfig.current = <<>>
  /\ (configCall.op = "removeProfile" /\ configCall.before.current # << configCall.name >>)
       => bentoConfig.current = configCall.before.current

====
